---- MODULE Spec2Model ----
(***************************************************************************)
(* Model of io_scene_godot/converters/material/script_shader/              *)
(* node_converters.py: the per-node converters that turn a Blender shader  *)
(* node graph into Godot shader script fragments.                          *)
(*                                                                         *)
(* Program text (identifiers, statements, declarations) is kept as        *)
(* strings, built exactly as the Python code builds them.  Socket maps     *)
(* hold, per socket, either an identifier string or a reference to a      *)
(* FragmentShaderLink object in `heap` (Python reference semantics).       *)
(***************************************************************************)
EXTENDS Integers, Sequences, FiniteSets, TLC

(***************************************************************************)
(* Bounds of the explored input graphs.                                    *)
(***************************************************************************)
MaxLinks == 1
MaxHops == 2

(***************************************************************************)
(* Text helpers.                                                           *)
(***************************************************************************)
None == "None"

Char(s, i) == SubSeq(s, i, i)

UpperChars == "ABCDEFGHIJKLMNOPQRSTUVWXYZ"
LowerChars == "abcdefghijklmnopqrstuvwxyz"
DigitChars == "0123456789"

CharsOf(s) == {Char(s, i) : i \in 1..Len(s)}

UpperSet == CharsOf(UpperChars)
DigitSet == CharsOf(DigitChars)

\* the regex class \w (ASCII part)
WordChars == UpperSet \cup CharsOf(LowerChars) \cup DigitSet \cup {"_"}

LowerTable ==
    [c \in UpperSet |->
        Char(LowerChars, CHOOSE j \in 1..Len(UpperChars) : Char(UpperChars, j) = c)]

\* str.lower() on one character
LowerChar(c) == IF c \in UpperSet THEN LowerTable[c] ELSE c

IsWordChar(c) == c \in WordChars

RECURSIVE filter_from(_, _)
filter_from(string, i) ==
    IF i > Len(string) THEN ""
    ELSE LET c == Char(string, i)
         IN  (IF IsWordChar(c) THEN LowerChar(c) ELSE "") \o filter_from(string, i + 1)

\* re.sub(r'\W', '', string).lower()
filter_id_illegal_char(string) == filter_from(string, 1)

\* str.isidentifier()
isidentifier(s) ==
    /\ Len(s) > 0
    /\ Char(s, 1) \notin DigitSet
    /\ \A i \in 1..Len(s) : IsWordChar(Char(s, i))

RECURSIVE Join(_, _)
\* sep.join(seq)
Join(seq, sep) ==
    IF Len(seq) = 0 THEN ""
    ELSE IF Len(seq) = 1 THEN seq[1]
    ELSE seq[1] \o sep \o Join(Tail(seq), sep)

\* the first blank-separated word of a line, starting at position i
RECURSIVE WordFrom(_, _)
WordFrom(s, i) ==
    IF i > Len(s) \/ Char(s, i) = " " THEN ""
    ELSE Char(s, i) \o WordFrom(s, i + 1)

(***************************************************************************)
(* Host values (socket.default_value, node properties).  A value carries   *)
(* its Python class and its components already printed by str().           *)
(***************************************************************************)
Float(x) == [cls |-> "float", v |-> <<x>>]
PropArray(xs) == [cls |-> "bpy_prop_array", v |-> xs]
Vector(xs) == [cls |-> "Vector", v |-> xs]
Euler(xs) == [cls |-> "Euler", v |-> xs]
Matrix(rows) == [cls |-> "Matrix", v |-> rows]

\* mathutils.Matrix.transposed()
transposed(rows) ==
    [j \in 1..Len(rows[1]) |-> [i \in 1..Len(rows) |-> rows[i][j]]]

vec_to_string(xs) == "vec" \o ToString(Len(xs)) \o "(" \o Join(xs, ", ") \o ")"

blender_value_to_string(blender_value) ==
    CASE blender_value.cls \in {"bpy_prop_array", "Vector"} ->
            vec_to_string(blender_value.v)
      [] blender_value.cls = "Euler" ->
            "vec3(" \o Join(blender_value.v, ", ") \o ")"
      [] blender_value.cls = "Matrix" ->
            LET mat == transposed(blender_value.v)
                column_vec_list == [i \in 1..Len(mat) |-> vec_to_string(mat[i])]
            IN  "mat" \o ToString(Len(column_vec_list)) \o "("
                \o Join(column_vec_list, ", ") \o ")"
      [] OTHER -> "float(" \o blender_value.v[1] \o ")"

SocketTypes == {"VALUE", "VECTOR", "RGBA", "SHADER"}

socket_type_string(type) ==
    CASE type = "RGBA" -> "vec4"
      [] type = "VECTOR" -> "vec3"
      [] type = "VALUE" -> "float"
      [] OTHER -> None

\* None stands for the failed assertion 'Unknown type'
socket_to_type_string(socket) == socket_type_string(socket.type)

(***************************************************************************)
(* shader_links.FragmentShaderLink: an aggregate of named properties, each *)
(* unbound (None) or bound to an identifier.                               *)
(***************************************************************************)
ALBEDO == "albedo"
ALPHA == "alpha"
NORMAL == "normal"
TANGENT == "tangent"

ALL_PROPERTIES ==
    <<"albedo", "alpha", "specular", "metallic", "roughness",
      "transmission", "emission", "normal", "tangent">>

PropertyNames == {ALL_PROPERTIES[i] : i \in 1..Len(ALL_PROPERTIES)}

get_property_type(pname) ==
    IF pname \in {"albedo", "emission", "normal", "tangent"} THEN "vec3" ELSE "float"

\* FragmentShaderLink(): every property unbound
FragmentShaderLink == [p \in PropertyNames |-> None]

get_property(link, pname) == link[pname]

set_property(link, pname, value) == [link EXCEPT ![pname] = value]

(***************************************************************************)
(* shader_functions: the registry of shader functions.                     *)
(***************************************************************************)
Function(name, ins, outs) ==
    [name |-> name, in_sockets |-> ins, output_properties |-> outs]

NodeFunctions ==
    [ShaderNodeBsdfDiffuse |->
        Function("node_bsdf_diffuse", <<"Color", "Roughness">>,
                 <<"albedo", "specular", "roughness">>),
     ShaderNodeBsdfPrincipled |->
        Function("node_bsdf_principled",
                 <<"Base Color", "Metallic", "Roughness", "Transmission">>,
                 <<"albedo", "metallic", "roughness", "transmission">>),
     ShaderNodeBsdfTransparent |->
        Function("node_bsdf_transparent", <<"Color">>, <<"alpha">>),
     ShaderNodeBsdfGlass |->
        Function("node_bsdf_glass", <<"Color", "Roughness", "IOR">>,
                 <<"albedo", "alpha", "roughness">>),
     ShaderNodeEmission |->
        Function("node_emission", <<"Color", "Strength">>,
                 <<"emission", "alpha">>),
     ShaderNodeTexImage |->
        Function("node_tex_image", <<"Vector">>, <<>>),
     ShaderNodeMapping |->
        Function("node_mapping", <<"Vector">>, <<>>),
     ShaderNodeNormalMap |->
        Function("node_normal_map", <<"Strength", "Color">>, <<>>),
     ShaderNodeBump |->
        Function("node_bump", <<"Strength", "Distance", "Height", "Normal">>, <<>>),
     ShaderNodeMath |->
        Function("node_math", <<"Value", "Value">>, <<>>),
     ShaderNodeSeparateRGB |->
        Function("node_separate_rgb", <<"Image">>, <<>>)]

\* the registry's answer 'not found'
NoFunction == Function(None, <<>>, <<>>)

node_has_function(node) == node.bl_idname \in DOMAIN NodeFunctions

find_node_function(node) ==
    IF node_has_function(node) THEN NodeFunctions[node.bl_idname] ELSE NoFunction

FunctionNames ==
    {"space_convert_yup_to_zup", "space_convert_zup_to_yup",
     "dir_space_convert_view_to_model", "point_space_convert_view_to_model",
     "dir_space_convert_model_to_view", "point_space_convert_model_to_view",
     "dir_space_convert_view_to_world", "point_space_convert_view_to_world",
     "dir_space_convert_world_to_view", "point_space_convert_world_to_view",
     "location_to_mat4", "euler_angle_XYZ_to_mat4", "scale_to_mat4",
     "node_mix_rgb_mix", "node_mix_rgb_add", "node_mix_rgb_multiply",
     "node_hsv", "node_invert"}

find_function_by_name(name) ==
    IF name \in FunctionNames THEN Function(name, <<>>, <<>>) ELSE NoFunction

(***************************************************************************)
(* The read-only input model: nodes, sockets and links of the node tree.   *)
(* A socket is addressed as (node position, direction, index in the        *)
(* node's socket list).                                                    *)
(***************************************************************************)
Sock(name, type, dv) ==
    [name |-> name, type |-> type, default_value |-> dv, identifier |-> name]

Node(bl_idname, label, inputs, outputs, p) ==
    [bl_idname |-> bl_idname, name |-> label, inputs |-> inputs,
     outputs |-> outputs, p |-> p]

FloatIn(name, x) == Sock(name, "VALUE", Float(x))
VecIn(name) == Sock(name, "VECTOR", PropArray(<<"0.0", "0.0", "0.0">>))
ColIn(name) == Sock(name, "RGBA", PropArray(<<"0.8", "0.8", "0.8", "1.0">>))
ShaderSock(name) == Sock(name, "SHADER", None)
VecOut(name) == VecIn(name)

TexCoordNode ==
    Node("ShaderNodeTexCoord", "Texture Coordinate", <<>>,
         <<VecOut("Generated"), VecOut("Normal"), VecOut("UV"), VecOut("Object"),
           VecOut("Camera"), VecOut("Window"), VecOut("Reflection")>>, [x |-> 0])

ImageTextureNode ==
    Node("ShaderNodeTexImage", "Image Texture", <<VecIn("Vector")>>,
         <<ColIn("Color"), FloatIn("Alpha", "0.0")>>, [image |-> "image"])

RgbNode ==
    Node("ShaderNodeRGB", "RGB", <<>>,
         <<Sock("Color", "RGBA", PropArray(<<"0.5", "0.5", "0.5", "1.0">>))>>,
         [x |-> 0])

ValueNode ==
    Node("ShaderNodeValue", "Value", <<>>, <<FloatIn("Value", "0.5")>>, [x |-> 0])

MixRgbNode(blend_type, use_clamp) ==
    Node("ShaderNodeMixRGB", "Mix",
         <<FloatIn("Fac", "0.5"), ColIn("Color1"), ColIn("Color2")>>,
         <<ColIn("Color")>>, [blend_type |-> blend_type, use_clamp |-> use_clamp])

NormalMapNode(space) ==
    Node("ShaderNodeNormalMap", "Normal Map",
         <<FloatIn("Strength", "1.0"),
           Sock("Color", "RGBA", PropArray(<<"0.5", "0.5", "1.0", "1.0">>))>>,
         <<VecOut("Normal")>>, [space |-> space])

BumpNode(invert) ==
    Node("ShaderNodeBump", "Bump",
         <<FloatIn("Strength", "1.0"), FloatIn("Distance", "1.0"),
           FloatIn("Height", "1.0"), FloatIn("Height_dx", "1.0"),
           FloatIn("Height_dy", "1.0"), VecIn("Normal")>>,
         <<VecOut("Normal")>>, [invert |-> invert])

RerouteNode(type) ==
    Node("NodeReroute", "Reroute",
         <<Sock("Input", type, IF type = "VALUE" THEN Float("0.0")
                               ELSE IF type = "VECTOR"
                                    THEN PropArray(<<"0.0", "0.0", "0.0">>)
                                    ELSE PropArray(<<"0.0", "0.0", "0.0", "1.0">>))>>,
         <<Sock("Output", type, None)>>, [x |-> 0])

MixShaderNode ==
    Node("ShaderNodeMixShader", "Mix Shader",
         <<FloatIn("Fac", "0.5"), ShaderSock("Shader"), ShaderSock("Shader")>>,
         <<ShaderSock("Shader")>>, [x |-> 0])

AddShaderNode ==
    Node("ShaderNodeAddShader", "Add Shader",
         <<ShaderSock("Shader"), ShaderSock("Shader")>>,
         <<ShaderSock("Shader")>>, [x |-> 0])

TangentNode(direction_type) ==
    Node("ShaderNodeTangent", "Tangent", <<>>, <<VecOut("Tangent")>>,
         [direction_type |-> direction_type])

UvmapNode ==
    Node("ShaderNodeUVMap", "UV Map", <<>>, <<VecOut("UV")>>, [x |-> 0])

GeometryNode ==
    Node("ShaderNodeNewGeometry", "Geometry", <<>>,
         <<VecOut("Position"), VecOut("Normal"), VecOut("Tangent"),
           VecOut("True Normal"), FloatIn("Backfacing", "0.0")>>, [x |-> 0])

HueSaturationNode ==
    Node("ShaderNodeHueSaturation", "Hue Saturation Value",
         <<FloatIn("Hue", "0.5"), FloatIn("Saturation", "1.0"),
           FloatIn("Value", "1.0"), FloatIn("Fac", "1.0"), ColIn("Color")>>,
         <<ColIn("Color")>>, [x |-> 0])

InvertNode ==
    Node("ShaderNodeInvert", "Invert", <<FloatIn("Fac", "1.0"), ColIn("Color")>>,
         <<ColIn("Color")>>, [x |-> 0])

\* Blender >= 2.81: location, rotation and scale are sockets;
\* before: they are node properties and mathutils computes transform_mat
MappingNode(vector_type, old) ==
    Node("ShaderNodeMapping", "Mapping",
         IF old THEN <<VecIn("Vector")>>
         ELSE <<VecIn("Vector"), VecIn("Location"), VecIn("Rotation"),
                Sock("Scale", "VECTOR", PropArray(<<"1.0", "1.0", "1.0">>))>>,
         <<VecOut("Vector")>>,
         [vector_type |-> vector_type, old |-> old,
          transform_mat |-> Matrix(<<<<"1.0", "0.0", "0.0", "2.0">>,
                                     <<"0.0", "1.0", "0.0", "3.0">>,
                                     <<"0.0", "0.0", "1.0", "4.0">>,
                                     <<"0.0", "0.0", "0.0", "1.0">>>>),
          min |-> Vector(<<"0.0", "0.0", "0.0">>),
          max |-> Vector(<<"1.0", "1.0", "1.0">>),
          use_min |-> FALSE, use_max |-> TRUE])

BsdfOut == [ShaderSock("BSDF") EXCEPT !.identifier = "BSDF"]

DiffuseNode ==
    Node("ShaderNodeBsdfDiffuse", "Diffuse BSDF",
         <<ColIn("Color"), FloatIn("Roughness", "0.0"), VecIn("Normal")>>,
         <<BsdfOut>>, [x |-> 0])

PrincipledNode(transmission) ==
    Node("ShaderNodeBsdfPrincipled", "Principled BSDF",
         <<ColIn("Base Color"), FloatIn("Metallic", "0.0"),
           FloatIn("Roughness", "0.5"), FloatIn("Transmission", transmission),
           VecIn("Normal"), VecIn("Tangent")>>,
         <<BsdfOut>>, [x |-> 0])

TransparentNode ==
    Node("ShaderNodeBsdfTransparent", "Transparent BSDF", <<ColIn("Color")>>,
         <<BsdfOut>>, [x |-> 0])

GlassNode ==
    Node("ShaderNodeBsdfGlass", "Glass BSDF",
         <<ColIn("Color"), FloatIn("Roughness", "0.0"), FloatIn("IOR", "1.45"),
           VecIn("Normal")>>,
         <<BsdfOut>>, [x |-> 0])

EmissionNode ==
    Node("ShaderNodeEmission", "Emission",
         <<ColIn("Color"), FloatIn("Strength", "1.0")>>,
         <<ShaderSock("Emission")>>, [x |-> 0])

\* a closure node the function registry does not know
HairBsdfNode ==
    Node("ShaderNodeBsdfHair", "Hair BSDF", <<ColIn("Color")>>, <<BsdfOut>>,
         [x |-> 0])

MathNode ==
    Node("ShaderNodeMath", "Math", <<FloatIn("Value", "0.5"), FloatIn("Value", "0.5")>>,
         <<FloatIn("Value", "0.0")>>, [x |-> 0])

SeparateRgbNode ==
    Node("ShaderNodeSeparateRGB", "Separate RGB", <<ColIn("Image")>>,
         <<FloatIn("R", "0.0"), FloatIn("G", "0.0"), FloatIn("B", "0.0")>>,
         [x |-> 0])

\* node kinds without converter and without registered function
NoiseTextureNode ==
    Node("ShaderNodeTexNoise", "Noise Texture",
         <<VecIn("Vector"), FloatIn("Scale", "5.0")>>,
         <<ColIn("Color"), FloatIn("Fac", "0.0")>>, [x |-> 0])

\* a node group; the names of its sockets are the user's
GroupNode ==
    Node("ShaderNodeGroup", "Group",
         <<FloatIn("in1_albedo", "0.0"), ShaderSock("in0")>>,
         <<ShaderSock("Shader")>>, [x |-> 0])

VolumeAbsorptionNode ==
    Node("ShaderNodeVolumeAbsorption", "Volume Absorption",
         <<ColIn("Color"), FloatIn("Density", "1.0")>>,
         <<ShaderSock("Volume")>>, [x |-> 0])

(***************************************************************************)
(* State.                                                                  *)
(***************************************************************************)
VARIABLES
    graph,       \* the node tree: [nodes: Seq(node), links: set of links]
    converters,  \* blnode_to_converter_map: node position -> converter
    heap,        \* the FragmentShaderLink objects created so far
    log,         \* the warnings given to logging.warning
    cur,         \* position of the node being processed
    pc,          \* the next step of the caller's per-node protocol
    error        \* None, or the fatal failure that aborted the conversion

vars == <<graph, converters, heap, log, cur, pc, error>>

\* a link: from output socket fs of node fn to input socket ts of node tn
Link(fn, fs, tn, ts) == [fn |-> fn, fs |-> fs, tn |-> tn, ts |-> ts]

InLinks(n, i) == {l \in graph.links : l.tn = n /\ l.ts = i}
OutLinks(n, o) == {l \in graph.links : l.fn = n /\ l.fs = o}

\* socket.is_linked
in_is_linked(n, i) == InLinks(n, i) # {}
out_is_linked(n, o) == OutLinks(n, o) # {}

\* socket.links[0] of an input socket
in_link(n, i) == CHOOSE l \in InLinks(n, i) : TRUE

\* node.inputs[name] / node.outputs[name]: index of the first socket so
\* named, 0 when there is none
SocketIndex(sockets, name) ==
    IF \E i \in 1..Len(sockets) : sockets[i].name = name
    THEN CHOOSE i \in 1..Len(sockets) :
            /\ sockets[i].name = name
            /\ \A j \in 1..(i - 1) : sockets[j].name # name
    ELSE 0

(***************************************************************************)
(* Socket bindings: an identifier (str) or a reference to a                *)
(* FragmentShaderLink object of the heap.                                  *)
(***************************************************************************)
IdVal(s) == [k |-> "str", id |-> s, ref |-> 0]
LinkRef(r) == [k |-> "link", id |-> "", ref |-> r]

ShadingFlags ==
    [transparent |-> FALSE, glass |-> FALSE, inv_view_mat_used |-> FALSE,
     inv_model_mat_used |-> FALSE, uv_or_tangent_used |-> FALSE,
     transmission_used |-> FALSE, aabb_tex_coord_used |-> FALSE]

INV_MODEL_MAT == "INV_MODEL_MAT"
INV_VIEW_MAT == "INV_VIEW_MAT"
AABB_UVW == "AABB_UVW"

\* NodeConverterBase.__init__; cls is the converter class
NodeConverterBase(cls, index, bl_node) ==
    [cls |-> cls,
     in_sockets_map |-> <<>>,
     out_sockets_map |-> <<>>,
     defined_ids |-> {},
     functions |-> {},
     textures |-> <<>>,
     input_definitions |-> <<"// input sockets handling">>,
     output_definitions |-> <<"// output sockets definitions">>,
     local_code |-> <<"\n">>,
     flags |-> ShadingFlags,
     bl_node |-> bl_node,
     id_prefix |-> "node" \o ToString(index) \o "_",
     variable_count |-> 0,
     input_var_count |-> 0,
     output_var_count |-> 0]

is_valid(self) == self.cls # "InvalidNodeConverter"

\* Each generator returns <<the converter with its counter advanced, the id>>
socket_prefix(self, is_output) ==
    IF is_output THEN "out" \o ToString(self.output_var_count) \o "_"
    ELSE "in" \o ToString(self.input_var_count) \o "_"

count_socket(self, is_output) ==
    IF is_output THEN [self EXCEPT !.output_var_count = @ + 1]
    ELSE [self EXCEPT !.input_var_count = @ + 1]

generate_socket_id_str(self, socket, is_output) ==
    <<count_socket(self, is_output),
      self.id_prefix \o socket_prefix(self, is_output)
        \o filter_id_illegal_char(socket.name)>>

generate_shader_id_str(self, socket, is_output, shader_prop_name) ==
    <<count_socket(self, is_output),
      self.id_prefix \o filter_id_illegal_char(
          socket.name \o "_" \o socket_prefix(self, is_output) \o shader_prop_name)>>

generate_variable_id_str(self, hint) ==
    <<[self EXCEPT !.variable_count = @ + 1],
      self.id_prefix \o "var" \o ToString(self.variable_count) \o "_"
        \o filter_id_illegal_char(hint)>>

\* hash_value is Python's hash(hashable_key)
generate_tmp_texture_id(self, hash_value) ==
    self.id_prefix \o filter_id_illegal_char("tex" \o ToString(hash_value) \o "_")

\* generate_socket_assignment with an opaque color made from a scalar
generate_socket_assignment_opaque(to_socket_id, to_socket_type, from_socket_id, from_socket_type) ==
    IF to_socket_type = from_socket_type
    THEN to_socket_id \o " = " \o from_socket_id
    ELSE IF to_socket_type = "VALUE"
    THEN to_socket_id \o " = dot(" \o from_socket_id
            \o (IF from_socket_type = "RGBA" THEN ".rgb" ELSE "")
            \o ", vec3(0.333333, 0.333333, 0.333333))"
    ELSE IF to_socket_type = "VECTOR" /\ from_socket_type = "VALUE"
    THEN to_socket_id \o " = vec3(" \o from_socket_id \o ", " \o from_socket_id
            \o ", " \o from_socket_id \o ")"
    ELSE IF to_socket_type = "RGBA" /\ from_socket_type = "VALUE"
    THEN to_socket_id \o " = vec4(" \o from_socket_id \o ", " \o from_socket_id
            \o ", " \o from_socket_id \o ", 1.0)"
    ELSE IF to_socket_type = "RGBA" /\ from_socket_type = "VECTOR"
    THEN to_socket_id \o " = vec4(" \o from_socket_id \o ", 1.0)"
    ELSE to_socket_id \o " = " \o from_socket_id \o ".rgb"

\* None stands for the failed assertion 'Cannot link sockets'
generate_socket_assignment(to_socket_id, to_socket_type, from_socket_id, from_socket_type) ==
    IF to_socket_type = from_socket_type
    THEN to_socket_id \o " = " \o from_socket_id
    ELSE IF to_socket_type = "VALUE" /\ from_socket_type = "VECTOR"
    THEN to_socket_id \o " = dot(" \o from_socket_id
            \o ", vec3(0.333333, 0.333333, 0.333333))"
    ELSE IF to_socket_type = "VALUE" /\ from_socket_type = "RGBA"
    THEN to_socket_id \o " = dot(" \o from_socket_id
            \o ".rgb, vec3(0.2126, 0.7152, 0.0722))"
    ELSE IF to_socket_type = "VECTOR" /\ from_socket_type = "VALUE"
    THEN to_socket_id \o " = vec3(" \o from_socket_id \o ", " \o from_socket_id
            \o ", " \o from_socket_id \o ")"
    ELSE IF to_socket_type = "RGBA" /\ from_socket_type = "VALUE"
    THEN to_socket_id \o " = vec4(" \o from_socket_id \o ", " \o from_socket_id
            \o ", " \o from_socket_id \o ", " \o from_socket_id \o ")"
    ELSE IF to_socket_type = "RGBA" /\ from_socket_type = "VECTOR"
    THEN to_socket_id \o " = vec4(" \o from_socket_id \o ", 1.0)"
    ELSE IF to_socket_type = "VECTOR" /\ from_socket_type = "RGBA"
    THEN to_socket_id \o " = " \o from_socket_id \o ".rgb"
    ELSE None

Append1(self, field, line) == [self EXCEPT ![field] = Append(@, line)]

add_local(self, line) == [self EXCEPT !.local_code = Append(@, line)]

add_function_call(self, function, in_args, out_args) ==
    [self EXCEPT
        !.functions = @ \cup {function.name},
        !.local_code =
            Append(@, function.name \o "(" \o Join(in_args \o out_args, ", ") \o ");")]

yup_to_zup(self, var) ==
    add_function_call(self, find_function_by_name("space_convert_yup_to_zup"),
                      <<var>>, <<>>)

zup_to_yup(self, var) ==
    add_function_call(self, find_function_by_name("space_convert_zup_to_yup"),
                      <<var>>, <<>>)

\* view_to_model announcing only the inverse view matrix
view_to_model_view_mat_only(self, var, is_direction) ==
    add_function_call(
        [self EXCEPT !.flags.inv_view_mat_used = TRUE],
        IF is_direction
        THEN find_function_by_name("dir_space_convert_view_to_model")
        ELSE find_function_by_name("point_space_convert_view_to_model"),
        <<var, INV_MODEL_MAT, INV_VIEW_MAT>>, <<>>)

view_to_model(self, var, is_direction) ==
    add_function_call(
        [self EXCEPT !.flags.inv_view_mat_used = TRUE,
                     !.flags.inv_model_mat_used = TRUE],
        IF is_direction
        THEN find_function_by_name("dir_space_convert_view_to_model")
        ELSE find_function_by_name("point_space_convert_view_to_model"),
        <<var, INV_MODEL_MAT, INV_VIEW_MAT>>, <<>>)

model_to_view(self, var, is_direction) ==
    add_function_call(
        self,
        IF is_direction
        THEN find_function_by_name("dir_space_convert_model_to_view")
        ELSE find_function_by_name("point_space_convert_model_to_view"),
        <<var, "INV_CAMERA_MATRIX", "WORLD_MATRIX">>, <<>>)

view_to_world(self, var, is_direction) ==
    add_function_call(
        [self EXCEPT !.flags.inv_view_mat_used = TRUE],
        IF is_direction
        THEN find_function_by_name("dir_space_convert_view_to_world")
        ELSE find_function_by_name("point_space_convert_view_to_world"),
        <<var, INV_VIEW_MAT>>, <<>>)

world_to_view(self, var, is_direction) ==
    add_function_call(
        self,
        IF is_direction
        THEN find_function_by_name("dir_space_convert_world_to_view")
        ELSE find_function_by_name("point_space_convert_world_to_view"),
        <<var, "INV_CAMERA_MATRIX">>, <<>>)

\* location_to_mat, rotation_to_mat, scale_to_mat share one shape:
\* returns <<converter, name of the mat4 variable>>
vec_to_mat(self, hint, function_name, vec) ==
    LET g == generate_variable_id_str(self, hint)
        mat == g[2]
    IN  <<add_function_call(add_local(g[1], "mat4 " \o mat),
                            find_function_by_name(function_name), <<vec>>, <<mat>>),
          mat>>

location_to_mat(self, loc_vec) ==
    vec_to_mat(self, "location", "location_to_mat4", loc_vec)

rotation_to_mat(self, rot_vec) ==
    vec_to_mat(self, "rotation", "euler_angle_XYZ_to_mat4", rot_vec)

scale_to_mat(self, scale_vec) ==
    vec_to_mat(self, "scale", "scale_to_mat4", scale_vec)

(***************************************************************************)
(* A handler runs on a machine record m: the converter being processed     *)
(* (self), the heap of shader links, the log, and err, the exception that  *)
(* ended the handler (None while it runs).                                 *)
(***************************************************************************)
Machine(self, h, l) == [self |-> self, heap |-> h, log |-> l, err |-> None]

Raise(m, what) == [m EXCEPT !.err = what]

Bind(map, key, value) == (key :> value) @@ map

RECURSIVE ForEach(_, _, _, _)
\* for x in seq[i..]: m = Body(m, x), stopping at the first exception
ForEach(Body(_, _), m, seq, i) ==
    IF i > Len(seq) \/ m.err # None THEN m
    ELSE ForEach(Body, Body(m, seq[i]), seq, i + 1)

Indices(seq) == [i \in 1..Len(seq) |-> i]

(***************************************************************************)
(* NodeConverterBase.initialize_inputs                                     *)
(***************************************************************************)
\* a warning that does not say which node is unsupported
unsupported_input_warning_unnamed(from_node, socket) ==
    "input node not supported,use default value for socket '" \o socket.name \o "'"

unsupported_input_warning(from_node, socket) ==
    "input node '" \o from_node.name
        \o "' not supported,use default value for socket '" \o socket.name \o "'"

\* the default branch of _initialize_value_in_socket
default_value_definition(self, socket, type_str, id_str) ==
    LET value_str ==
            IF socket.name = "Normal" THEN "NORMAL"
            ELSE IF socket.name = "Tangent" THEN "TANGENT"
            ELSE blender_value_to_string(socket.default_value)
    IN  Append1(self, "input_definitions",
                type_str \o " " \o id_str \o " = " \o value_str)

initialize_value_in_socket(m, n, i) ==
    LET socket == graph.nodes[n].inputs[i]
        type_str == socket_to_type_string(socket)
        g == generate_socket_id_str(m.self, socket, FALSE)
        id_str == g[2]
        self1 == [g[1] EXCEPT !.in_sockets_map = Bind(@, i, IdVal(id_str)),
                              !.defined_ids = @ \cup {id_str}]
        m1 == [m EXCEPT !.self = self1]
        link == in_link(n, i)
        from_node == graph.nodes[link.fn]
        from_socket == from_node.outputs[link.fs]
        from_converter == converters[link.fn]
        from_socket_id == from_converter.out_sockets_map[link.fs]
        inter_socket_assign_str ==
            IF from_socket_id.k = "str"
            THEN generate_socket_assignment(id_str, socket.type,
                                            from_socket_id.id, from_socket.type)
            ELSE generate_socket_assignment(id_str, socket.type,
                                            "<FragmentShaderLink>", from_socket.type)
    IN  IF type_str = None THEN Raise(m, "AssertionError: Unknown type")
        ELSE IF ~in_is_linked(n, i)
        THEN [m1 EXCEPT !.self =
                default_value_definition(self1, socket, type_str, id_str)]
        ELSE IF link.fn \notin DOMAIN converters
        THEN Raise(m1, "KeyError: blnode_to_converter_map")
        ELSE IF ~is_valid(from_converter)
        THEN [m1 EXCEPT
                !.log = Append(@, unsupported_input_warning(from_node, socket)),
                !.self = default_value_definition(self1, socket, type_str, id_str)]
        ELSE IF link.fs \notin DOMAIN from_converter.out_sockets_map
        THEN Raise(m1, "KeyError: out_sockets_map")
        ELSE IF inter_socket_assign_str = None
        THEN Raise(m1, "AssertionError: Cannot link sockets")
        ELSE [m1 EXCEPT !.self =
                Append1(self1, "input_definitions",
                        type_str \o " " \o inter_socket_assign_str)]

\* the loop of _initialize_shader_in_socket over one property of link r
rename_shader_property(m, socket, r, pname) ==
    LET from_prop_id == get_property(m.heap[r], pname)
        g == generate_shader_id_str(m.self, socket, FALSE, pname)
        cur_prop_id == g[2]
        cur_prop_type == get_property_type(pname)
    IN  IF from_prop_id = None THEN m
        ELSE [m EXCEPT
                !.heap[r] = set_property(@, pname, cur_prop_id),
                !.self = Append1(
                    [g[1] EXCEPT !.defined_ids = @ \cup {cur_prop_id}],
                    "input_definitions",
                    cur_prop_type \o " " \o cur_prop_id \o " = " \o from_prop_id)]

\* ownership of the link: the upstream converter's object when adopted
adopt_shader_link(m, socket, r) ==
    ForEach(LAMBDA mm, pname : rename_shader_property(mm, socket, r, pname),
            m, ALL_PROPERTIES, 1)

initialize_shader_in_socket(m, n, i) ==
    LET socket == graph.nodes[n].inputs[i]
        link == in_link(n, i)
        from_socket == graph.nodes[link.fn].outputs[link.fs]
        from_converter == converters[link.fn]
        adopts == /\ in_is_linked(n, i)
                  /\ link.fn \in DOMAIN converters
                  /\ from_socket.type = "SHADER"
                  /\ is_valid(from_converter)
        upstream == from_converter.out_sockets_map[link.fs]
        \* default only set albedo
        g == generate_shader_id_str(m.self, socket, FALSE, ALBEDO)
        r == Len(m.heap) + 1
        fresh == [m EXCEPT
                    !.heap = Append(@, set_property(FragmentShaderLink, ALBEDO, g[2])),
                    !.self = Append1(
                        [g[1] EXCEPT !.in_sockets_map = Bind(@, i, LinkRef(r))],
                        "input_definitions",
                        "vec3 " \o g[2] \o " = vec3(0.0, 0.0, 0.0)")]
    IN  IF in_is_linked(n, i) /\ link.fn \notin DOMAIN converters
        THEN Raise(m, "KeyError: blnode_to_converter_map")
        ELSE IF ~adopts THEN adopt_shader_link(fresh, socket, r)
        ELSE IF link.fs \notin DOMAIN from_converter.out_sockets_map
        THEN Raise(m, "KeyError: out_sockets_map")
        ELSE IF upstream.k # "link"
        THEN Raise([m EXCEPT !.self.in_sockets_map = Bind(@, i, upstream)],
                   "AttributeError: get_property")
        ELSE adopt_shader_link(
                [m EXCEPT !.self.in_sockets_map = Bind(@, i, upstream)],
                socket, upstream.ref)

initialize_inputs(m, n) ==
    ForEach(LAMBDA mm, i :
                IF graph.nodes[n].inputs[i].type # "SHADER"
                THEN initialize_value_in_socket(mm, n, i)
                ELSE initialize_shader_in_socket(mm, n, i),
            m, Indices(graph.nodes[n].inputs), 1)

(***************************************************************************)
(* NodeConverterBase.initialize_outputs                                    *)
(***************************************************************************)
RECURSIVE SeqConcat(_, _)
SeqConcat(seqs, i) ==
    IF i > Len(seqs) THEN <<>> ELSE seqs[i] \o SeqConcat(seqs, i + 1)

\* ids_of_output declaring a variable for every non-shader output socket,
\* registered or not
ids_of_output_every_socket(self, h, socket, o) ==
    LET var == self.out_sockets_map[o]
        bound == SelectSeq(ALL_PROPERTIES,
                           LAMBDA pname : get_property(h[var.ref], pname) # None)
    IN  IF socket.type # "SHADER"
        THEN <<[type_str |-> socket_to_type_string(socket),
                id_str |-> IF o \in DOMAIN self.out_sockets_map THEN var.id
                           ELSE self.id_prefix \o "out_"
                                    \o filter_id_illegal_char(socket.name),
                isstr |-> o \in DOMAIN self.out_sockets_map => var.k = "str"]>>
        ELSE IF o \notin DOMAIN self.out_sockets_map THEN <<>>
        ELSE [j \in 1..Len(bound) |->
                [type_str |-> get_property_type(bound[j]),
                 id_str |-> get_property(h[var.ref], bound[j]), isstr |-> TRUE]]

\* the (type_str, id_str) pairs one output socket contributes to id_to_define;
\* isstr is FALSE when id_str is not a str object
ids_of_output(self, h, socket, o) ==
    LET var == self.out_sockets_map[o]
        bound == SelectSeq(ALL_PROPERTIES,
                           LAMBDA pname : get_property(h[var.ref], pname) # None)
    IN  IF o \notin DOMAIN self.out_sockets_map THEN <<>>
        ELSE IF socket.type # "SHADER"
        THEN <<[type_str |-> socket_to_type_string(socket), id_str |-> var.id,
                isstr |-> var.k = "str"]>>
        ELSE [j \in 1..Len(bound) |->
                [type_str |-> get_property_type(bound[j]),
                 id_str |-> get_property(h[var.ref], bound[j]), isstr |-> TRUE]]

id_to_define(self, h, node) ==
    SeqConcat([o \in 1..Len(node.outputs) |->
                    ids_of_output(self, h, node.outputs[o], o)], 1)

define_output_id(m, d) ==
    IF ~(d.isstr /\ isidentifier(d.id_str))
    THEN Raise(m, "AssertionError: isidentifier")
    ELSE IF d.id_str \in m.self.defined_ids THEN m
    ELSE [m EXCEPT !.self =
            Append1([m.self EXCEPT !.defined_ids = @ \cup {d.id_str}],
                    "output_definitions", d.type_str \o " " \o d.id_str)]

\* initialize_outputs of a converter that starts over with fresh flags
initialize_outputs_fresh_flags(m, n) == [m EXCEPT !.self.flags = ShadingFlags]

initialize_outputs(m, n) ==
    LET node == graph.nodes[n]
        shader_as_str ==
            \E o \in DOMAIN m.self.out_sockets_map :
                node.outputs[o].type = "SHADER" /\ m.self.out_sockets_map[o].k # "link"
    IN  IF shader_as_str THEN Raise(m, "AttributeError: get_property")
        ELSE ForEach(define_output_id, m, id_to_define(m.self, m.heap, node), 1)

(***************************************************************************)
(* parse_node_to_fragment of the converter classes.  In each, node is      *)
(* self.bl_node and n its position in the tree.                            *)
(***************************************************************************)
in_id(self, i) == self.in_sockets_map[i].id

\* mix_frag_shader_link's loop body without the default for a missing alpha
mix_property_no_default(m, node, input_a, input_b, output, fac, pname) ==
    LET prop_a == get_property(m.heap[input_a], pname)
        prop_b == get_property(m.heap[input_b], pname)
        g == generate_shader_id_str(m.self, node.outputs[1], TRUE, pname)
    IN  IF prop_a # None /\ prop_b # None
        THEN [m EXCEPT
                !.self = add_local(g[1], g[2] \o " = mix(" \o prop_a
                                         \o ", " \o prop_b \o ", " \o fac \o ")"),
                !.heap[output] = set_property(@, pname, g[2])]
        ELSE [m EXCEPT !.self = g[1],
                       !.heap[output] =
                            set_property(@, pname,
                                         IF prop_a # None THEN prop_a ELSE prop_b)]

\* mix_property forgetting the pass-through of a property only one input defines
mix_property_no_passthrough(m, node, input_a, input_b, output, fac, pname) ==
    LET raw_a == get_property(m.heap[input_a], pname)
        raw_b == get_property(m.heap[input_b], pname)
        prop_a == IF pname = ALPHA /\ raw_b # None /\ raw_a = None
                  THEN "1.0" ELSE raw_a
        prop_b == IF pname = ALPHA /\ raw_a # None /\ raw_b = None
                  THEN "1.0" ELSE raw_b
        g == generate_shader_id_str(m.self, node.outputs[1], TRUE, pname)
        mix_result_id == g[2]
    IN  IF prop_a # None /\ prop_b # None
        THEN [m EXCEPT
                !.self = add_local(g[1], mix_result_id \o " = mix(" \o prop_a
                                         \o ", " \o prop_b \o ", " \o fac \o ")"),
                !.heap[output] = set_property(@, pname, mix_result_id)]
        ELSE [m EXCEPT !.self = g[1]]

\* one property of mix_frag_shader_link's loop
mix_property(m, node, input_a, input_b, output, fac, pname) ==
    LET raw_a == get_property(m.heap[input_a], pname)
        raw_b == get_property(m.heap[input_b], pname)
        \* any shader node has no ALPHA property default to have alpha = 1.0
        prop_a == IF pname = ALPHA /\ raw_b # None /\ raw_a = None
                  THEN "1.0" ELSE raw_a
        prop_b == IF pname = ALPHA /\ raw_a # None /\ raw_b = None
                  THEN "1.0" ELSE raw_b
        g == generate_shader_id_str(m.self, node.outputs[1], TRUE, pname)
        mix_result_id == g[2]
    IN  IF prop_a # None /\ prop_b # None
        THEN [m EXCEPT
                !.self = add_local(g[1], mix_result_id \o " = mix(" \o prop_a
                                         \o ", " \o prop_b \o ", " \o fac \o ")"),
                !.heap[output] = set_property(@, pname, mix_result_id)]
        ELSE IF prop_a # None
        THEN [m EXCEPT !.self = g[1],
                       !.heap[output] = set_property(@, pname, prop_a)]
        ELSE IF prop_b # None
        THEN [m EXCEPT !.self = g[1],
                       !.heap[output] = set_property(@, pname, prop_b)]
        ELSE [m EXCEPT !.self = g[1]]

mix_frag_shader_link(m, node, input_a, input_b, output, fac) ==
    ForEach(LAMBDA mm, pname :
                mix_property(mm, node, input_a, input_b, output, fac, pname),
            m, ALL_PROPERTIES, 1)

\* the common tail of AddShaderConverter and MixShaderConverter
mix_shader_sockets(m, node, a, b, fac) ==
    LET output == Len(m.heap) + 1
        m1 == [m EXCEPT !.heap = Append(@, FragmentShaderLink)]
        m2 == mix_frag_shader_link(m1, node, m.self.in_sockets_map[a].ref,
                                   m.self.in_sockets_map[b].ref, output, fac)
    IN  [m2 EXCEPT !.self.out_sockets_map = Bind(@, 1, LinkRef(output))]

InvalidNodeConverter_parse(m, n) ==
    [m EXCEPT !.self = add_local(@, "// Warn: node not supported")]

AddShaderConverter_parse(m, n) ==
    mix_shader_sockets(m, graph.nodes[n], 1, 2, "0.5")

MixShaderConverter_parse(m, n) ==
    LET node == graph.nodes[n]
        fac == SocketIndex(node.inputs, "Fac")
    IN  IF fac = 0 THEN Raise(m, "KeyError: Fac")
        ELSE mix_shader_sockets(m, node, 2, 3, in_id(m.self, fac))

bsdf_flags(self, node, n) ==
    LET tangent_socket == SocketIndex(node.inputs, "Tangent")
        transmission_socket == SocketIndex(node.inputs, "Transmission")
    IN  [self EXCEPT
            !.flags.glass = @ \/ node.bl_idname = "ShaderNodeBsdfGlass",
            !.flags.transparent =
                @ \/ node.bl_idname \in {"ShaderNodeBsdfTransparent",
                                         "ShaderNodeBsdfGlass"},
            !.flags.uv_or_tangent_used =
                @ \/ (tangent_socket # 0 /\ in_is_linked(n, tangent_socket)),
            !.flags.transmission_used =
                @ \/ (/\ transmission_socket # 0
                      /\ in_is_linked(n, transmission_socket)
                      /\ node.inputs[transmission_socket].default_value
                            = Float("0.0"))]

\* one output property of the closure function
bsdf_output_property(m, node, output, prop_name) ==
    LET g == generate_shader_id_str(m.self, node.outputs[1], TRUE, prop_name)
    IN  [m EXCEPT !.self = g[1],
                  !.heap[output] = set_property(@, prop_name, g[2])]

\* bsdf_direction converting the socket variable whether linked or not
bsdf_direction_always_converted(m, node, n, output, pname, socket) ==
    LET socket_var == in_id(m.self, socket)
        converted == world_to_view(zup_to_yup(m.self, socket_var), socket_var, TRUE)
    IN  IF socket = 0 THEN m
        ELSE [m EXCEPT !.self = converted,
                       !.heap[output] = set_property(@, pname, socket_var)]

\* normal and tangent don't go to function
bsdf_direction(m, node, n, output, pname, socket) ==
    LET socket_var == in_id(m.self, socket)
        converted == IF in_is_linked(n, socket)
                     THEN world_to_view(zup_to_yup(m.self, socket_var),
                                        socket_var, TRUE)
                     ELSE m.self
    IN  IF socket = 0 THEN m
        ELSE [m EXCEPT !.self = converted,
                       !.heap[output] = set_property(@, pname, socket_var)]

BsdfNodeConverter_parse(m, n) ==
    LET node == graph.nodes[n]
        output == Len(m.heap) + 1
        m1 == [m EXCEPT
                !.heap = Append(@, FragmentShaderLink),
                !.self = bsdf_flags(
                    [m.self EXCEPT !.out_sockets_map = Bind(@, 1, LinkRef(output))],
                    node, n)]
        function == find_node_function(node)
        func_in_args ==
            [k \in 1..Len(function.in_sockets) |->
                in_id(m1.self, SocketIndex(node.inputs, function.in_sockets[k]))]
        m2 == ForEach(LAMBDA mm, prop_name :
                          bsdf_output_property(mm, node, output, prop_name),
                      m1, function.output_properties, 1)
        func_out_args ==
            [k \in 1..Len(function.output_properties) |->
                get_property(m2.heap[output], function.output_properties[k])]
        m3 == [m2 EXCEPT !.self =
                add_function_call(@, function, func_in_args, func_out_args)]
        m4 == bsdf_direction(m3, node, n, output, NORMAL,
                             SocketIndex(node.inputs, "Normal"))
    IN  IF function = NoFunction THEN Raise(m1, "AttributeError: in_sockets")
        ELSE IF \E k \in 1..Len(function.in_sockets) :
                    SocketIndex(node.inputs, function.in_sockets[k]) = 0
        THEN Raise(m1, "KeyError: inputs")
        ELSE bsdf_direction(m4, node, n, output, TANGENT,
                            SocketIndex(node.inputs, "Tangent"))

\* a reroute that copies its input into a variable of its own
RerouteNodeConverter_copy(m, n) ==
    LET node == graph.nodes[n]
        g == generate_socket_id_str(m.self, node.outputs[1], TRUE)
    IN  [m EXCEPT !.self =
            add_local([g[1] EXCEPT !.out_sockets_map = Bind(@, 1, IdVal(g[2]))],
                      g[2] \o " = " \o m.self.in_sockets_map[1].id)]

RerouteNodeConverter_parse(m, n) ==
    [m EXCEPT !.self.out_sockets_map = Bind(@, 1, m.self.in_sockets_map[1])]

\* one input socket of BumpNodeConverter's loop; acc = <<converter, in_arguments>>
bump_input(acc, node, n, i) ==
    LET socket == node.inputs[i]
        socket_var == in_id(acc[1], i)
    IN  IF socket.name \in {"Height_dx", "Height_dy"} THEN acc
        ELSE IF socket.name = "Normal" /\ in_is_linked(n, i)
        THEN <<world_to_view(zup_to_yup(acc[1], socket_var), socket_var, TRUE),
               Append(acc[2], socket_var)>>
        ELSE <<acc[1], Append(acc[2], socket_var)>>

RECURSIVE bump_inputs(_, _, _, _)
bump_inputs(acc, node, n, i) ==
    IF i > Len(node.inputs) THEN acc
    ELSE bump_inputs(bump_input(acc, node, n, i), node, n, i + 1)

BumpNodeConverter_parse(m, n) ==
    LET node == graph.nodes[n]
        function == find_node_function(node)
        acc == bump_inputs(<<m.self, <<>>>>, node, n, 1)
        in_arguments == acc[2] \o <<"VERTEX", IF node.p.invert THEN "1.0" ELSE "0.0">>
        g == generate_socket_id_str(acc[1], node.outputs[1], TRUE)
        out_normal == g[2]
        self1 == [g[1] EXCEPT !.out_sockets_map = Bind(@, 1, IdVal(out_normal))]
        self2 == add_function_call(self1, function, in_arguments, <<out_normal>>)
    IN  [m EXCEPT !.self =
            yup_to_zup(view_to_world(self2, out_normal, TRUE), out_normal)]

NormalMapNodeConverter_parse(m, n) ==
    LET node == graph.nodes[n]
        function == find_node_function(node)
        in_arguments == [i \in 1..Len(node.inputs) |-> in_id(m.self, i)]
        g == generate_socket_id_str(m.self, node.outputs[1], TRUE)
        output_normal == g[2]
        self1 == [g[1] EXCEPT !.out_sockets_map = Bind(@, 1, IdVal(output_normal))]
        used == [self1 EXCEPT !.flags.inv_view_mat_used = TRUE]
    IN  [m EXCEPT !.self =
            CASE node.p.space = "TANGENT" ->
                    yup_to_zup(
                        view_to_world(
                            add_function_call(
                                self1, function,
                                in_arguments \o <<"NORMAL", "TANGENT", "BINORMAL">>,
                                <<output_normal>>),
                            output_normal, TRUE),
                        output_normal)
              [] node.p.space = "WORLD" ->
                    yup_to_zup(
                        add_function_call(
                            used, function,
                            in_arguments \o <<"NORMAL", INV_VIEW_MAT>>,
                            <<output_normal>>),
                        output_normal)
              [] node.p.space = "OBJECT" ->
                    yup_to_zup(
                        add_function_call(
                            used, function,
                            in_arguments \o <<"NORMAL", INV_VIEW_MAT, "WORLD_MATRIX">>,
                            <<output_normal>>),
                        output_normal)
              [] OTHER -> self1]

\* the first loop of TexCoordNodeConverter registering unlinked sockets too
texcoord_register_unlinked(self, node, n, o) ==
    LET g == generate_socket_id_str(self, node.outputs[o], TRUE)
    IN  [g[1] EXCEPT !.out_sockets_map = Bind(@, o, IdVal(g[2]))]

\* the first loop of TexCoordNodeConverter: ids for the linked outputs
texcoord_register(self, node, n, o) ==
    LET g == generate_socket_id_str(self, node.outputs[o], TRUE)
    IN  IF out_is_linked(n, o)
        THEN [g[1] EXCEPT !.out_sockets_map = Bind(@, o, IdVal(g[2]))]
        ELSE self

RECURSIVE texcoord_register_all(_, _, _, _)
texcoord_register_all(self, node, n, o) ==
    IF o > Len(node.outputs) THEN self
    ELSE texcoord_register_all(texcoord_register(self, node, n, o), node, n, o + 1)

\* the block of TexCoordNodeConverter for the output socket called name;
\* Emit(self, id) appends its statements
texcoord_output(self, node, n, name, Emit(_, _)) ==
    LET o == SocketIndex(node.outputs, name)
    IN  IF out_is_linked(n, o) THEN Emit(self, self.out_sockets_map[o].id) ELSE self

texcoord_generated(self, node, n) ==
    LET generated_socket == SocketIndex(node.outputs, "Generated")
        ref_socket == SocketIndex(node.outputs, "Reflection")
        generated_id == self.out_sockets_map[generated_socket].id
    IN  IF out_is_linked(n, generated_socket)
        THEN [add_local([self EXCEPT !.flags.aabb_tex_coord_used = TRUE],
                        generated_id \o " = " \o AABB_UVW)
                EXCEPT !.out_sockets_map = Bind(@, ref_socket, IdVal(generated_id))]
        ELSE self

TexCoordNodeConverter_parse(m, n) ==
    LET node == graph.nodes[n]
        s0 == texcoord_register_all(m.self, node, n, 1)
        s1 == texcoord_output(s0, node, n, "UV",
                LAMBDA s, uv_id : add_local(s, uv_id \o " = vec3(UV, 0.0)"))
        s2 == texcoord_output(s1, node, n, "Window",
                LAMBDA s, window_id :
                    add_local(s, window_id \o " = vec3(SCREEN_UV, 0.0)"))
        s3 == texcoord_output(s2, node, n, "Camera",
                LAMBDA s, camera_id :
                    add_local(s, camera_id \o " = vec3(VERTEX.xy, -VERTEX.z)"))
        s4 == texcoord_output(s3, node, n, "Normal",
                LAMBDA s, normal_id :
                    yup_to_zup(
                        view_to_model(add_local(s, normal_id \o " = NORMAL"),
                                      normal_id, TRUE),
                        normal_id))
        s5 == texcoord_output(s4, node, n, "Object",
                LAMBDA s, object_id :
                    yup_to_zup(
                        view_to_model(add_local(s, object_id \o " = VERTEX"),
                                      object_id, FALSE),
                        object_id))
        s6 == texcoord_output(s5, node, n, "Reflection",
                LAMBDA s, reflect_id :
                    yup_to_zup(
                        view_to_model(
                            add_local(s, reflect_id
                                         \o " = reflect(normalize(VERTEX), NORMAL)"),
                            reflect_id, TRUE),
                        reflect_id))
    IN  [m EXCEPT !.self = texcoord_generated(s6, node, n)]

RgbNodeConverter_parse(m, n) ==
    LET rgb_socket == graph.nodes[n].outputs[1]
        g == generate_socket_id_str(m.self, rgb_socket, TRUE)
        rgb_id == g[2]
        rgb_value_str == blender_value_to_string(rgb_socket.default_value)
    IN  [m EXCEPT !.self =
            [add_local(g[1], rgb_id \o " = " \o rgb_value_str)
                EXCEPT !.out_sockets_map = Bind(@, 1, IdVal(rgb_id))]]

ValueNodeConverter_parse(m, n) ==
    LET node == graph.nodes[n]
        o == SocketIndex(node.outputs, "Value")
        g == generate_socket_id_str(m.self, node.outputs[o], TRUE)
        value_id == g[2]
        value_str == blender_value_to_string(node.outputs[o].default_value)
    IN  [m EXCEPT !.self =
            [g[1] EXCEPT !.out_sockets_map =
                Bind(@, o, IdVal(value_id \o " = " \o value_str))]]

RECURSIVE lower_from(_, _)
lower_from(s, i) ==
    IF i > Len(s) THEN "" ELSE LowerChar(Char(s, i)) \o lower_from(s, i + 1)

\* str.lower()
lower(s) == lower_from(s, 1)

MixRgbNodeConverter_parse(m, n) ==
    LET node == graph.nodes[n]
        fac_id == in_id(m.self, SocketIndex(node.inputs, "Fac"))
        color1_id == in_id(m.self, SocketIndex(node.inputs, "Color1"))
        color2_id == in_id(m.self, SocketIndex(node.inputs, "Color2"))
        rgb_mix_func_name == "node_mix_rgb_" \o lower(node.p.blend_type)
        \* clamp fac to (0, 1)
        self1 == add_local(m.self, fac_id \o " = clamp(" \o fac_id \o ", 0.0, 1.0)")
        found == find_function_by_name(rgb_mix_func_name)
        warning_str == "blend type " \o node.p.blend_type \o " not supported at "
                        \o node.name \o ", fall back to blend type MIX"
        mix_func == IF found = NoFunction THEN find_function_by_name("node_mix_rgb_mix")
                    ELSE found
        self2 == IF found = NoFunction THEN add_local(self1, "// " \o warning_str)
                 ELSE self1
        out_color_socket == SocketIndex(node.outputs, "Color")
        g == generate_socket_id_str(self2, node.outputs[out_color_socket], TRUE)
        out_color_id == g[2]
        self3 == add_function_call(g[1], mix_func,
                                   <<fac_id, color1_id, color2_id>>, <<out_color_id>>)
        self4 == IF node.p.use_clamp
                 THEN add_local(self3, out_color_id \o " = clamp(" \o out_color_id
                                        \o ", vec4(0.0), vec4(1.0))")
                 ELSE self3
    IN  IF mix_func = NoFunction THEN Raise(m, "AssertionError: mix_func")
        ELSE [m EXCEPT
                !.log = IF found = NoFunction THEN Append(@, warning_str) ELSE @,
                !.self = [self4 EXCEPT !.out_sockets_map =
                            Bind(@, out_color_socket, IdVal(out_color_id))]]

(***************************************************************************)
(* Texture classification: breadth-first forward tracing of the links      *)
(* leaving the Color output of an image texture node.  Queue entries are   *)
(* <<node, input socket>> pairs.                                           *)
(***************************************************************************)
RECURSIVE SetToSeq(_)
SetToSeq(S) ==
    IF S = {} THEN <<>>
    ELSE LET x == CHOOSE y \in S : TRUE IN <<x>> \o SetToSeq(S \ {x})

\* link_targets taking the links of every output socket of the node
link_targets_any_output(n, o) ==
    LET ls == SetToSeq({l \in graph.links : l.fn = n})
    IN  [k \in 1..Len(ls) |-> <<ls[k].tn, ls[k].ts>>]

\* [(link.to_node, link.to_socket) for link in socket.links]
link_targets(n, o) ==
    LET ls == SetToSeq(OutLinks(n, o))
    IN  [k \in 1..Len(ls) |-> <<ls[k].tn, ls[k].ts>>]

\* the targets of every link leaving any output socket of node n
node_targets(n) ==
    SeqConcat([o \in 1..Len(graph.nodes[n].outputs) |-> link_targets(n, o)], 1)

albedo_socket(node, socket) ==
    \/ socket.name = "Base Color" /\ node.bl_idname = "ShaderNodeBsdfPrincipled"
    \/ socket.name = "Color" /\ node.bl_idname = "ShaderNodeBsdfDiffuse"

normal_socket(node, socket) ==
    socket.name = "Color" /\ node.bl_idname = "ShaderNodeNormalMap"

RECURSIVE trace_links(_, _)
\* the while loop: pop left, test, push the targets of the popped node
trace_links(Found(_, _), node_queue) ==
    IF Len(node_queue) = 0 THEN FALSE
    ELSE LET node == graph.nodes[Head(node_queue)[1]]
             socket == node.inputs[Head(node_queue)[2]]
         IN  IF Found(node, socket) THEN TRUE
             ELSE trace_links(Found,
                              Tail(node_queue) \o node_targets(Head(node_queue)[1]))

\* is_albedo_texture looking only at the sockets the Color output is linked to
is_albedo_texture_direct(n) ==
    \E l \in OutLinks(n, SocketIndex(graph.nodes[n].outputs, "Color")) :
        albedo_socket(graph.nodes[l.tn], graph.nodes[l.tn].inputs[l.ts])

is_albedo_texture(n) ==
    trace_links(albedo_socket,
                link_targets(n, SocketIndex(graph.nodes[n].outputs, "Color")))

is_normal_texture(n) ==
    trace_links(normal_socket,
                link_targets(n, SocketIndex(graph.nodes[n].outputs, "Color")))

RECURSIVE trace_steps(_, _, _)
\* the while loop again, counting its iterations (one popleft each)
trace_steps(Found(_, _), node_queue, steps) ==
    IF Len(node_queue) = 0 THEN steps
    ELSE LET node == graph.nodes[Head(node_queue)[1]]
             socket == node.inputs[Head(node_queue)[2]]
         IN  IF Found(node, socket) THEN steps + 1
             ELSE trace_steps(Found,
                              Tail(node_queue) \o node_targets(Head(node_queue)[1]),
                              steps + 1)

\* the iterations of the loop of is_albedo_texture and of is_normal_texture
is_albedo_texture_steps(n) ==
    trace_steps(albedo_socket,
                link_targets(n, SocketIndex(graph.nodes[n].outputs, "Color")), 0)

is_normal_texture_steps(n) ==
    trace_steps(normal_socket,
                link_targets(n, SocketIndex(graph.nodes[n].outputs, "Color")), 0)

Hint_NONE == 0
Hint_ALBEDO == 1
Hint_NORMAL == 2

\* Texture.__init__
Texture(bl_image, identifier, hint) ==
    [image |-> bl_image, tmp_identifier |-> identifier, hint |-> hint]

texture_hint(n) ==
    IF is_normal_texture(n) THEN Hint_NORMAL
    ELSE IF is_albedo_texture(n) THEN Hint_ALBEDO
    ELSE Hint_NONE

\* the loop over the outputs shared by ImageTextureNodeConverter and
\* GeneralNodeConverter: acc = <<converter, out_arguments>>
RECURSIVE register_all_outputs(_, _, _)
register_all_outputs(acc, node, o) ==
    IF o > Len(node.outputs) THEN acc
    ELSE LET g == generate_socket_id_str(acc[1], node.outputs[o], TRUE)
         IN  register_all_outputs(
                <<[g[1] EXCEPT !.out_sockets_map = Bind(@, o, IdVal(g[2]))],
                  Append(acc[2], g[2])>>,
                node, o + 1)

\* name_hash is hash(self.bl_node.name)
ImageTextureNodeConverter_parse(m, n, name_hash) ==
    LET node == graph.nodes[n]
        function == find_node_function(node)
        tex_coord == in_id(m.self, 1)
        self1 == IF ~in_is_linked(n, 1)
                 THEN add_local(m.self, tex_coord \o " = vec3(UV, 0.0)")
                 ELSE m.self
        tex_var == generate_tmp_texture_id(self1, name_hash)
        self2 == [self1 EXCEPT !.textures =
                    Append(@, Texture(node.p.image, tex_var, texture_hint(n)))]
        acc == register_all_outputs(<<self2, <<>>>>, node, 1)
    IN  [m EXCEPT !.self =
            add_function_call(acc[1], function, <<tex_coord, tex_var>>, acc[2])]

GeneralNodeConverter_parse(m, n) ==
    LET node == graph.nodes[n]
        function == find_node_function(node)
        in_arguments == [i \in 1..Len(node.inputs) |-> in_id(m.self, i)]
        acc == register_all_outputs(<<m.self, <<>>>>, node, 1)
    IN  [m EXCEPT !.self =
            add_function_call(acc[1], function, in_arguments, acc[2])]

MappingNodeConverter_parse(m, n) ==
    LET node == graph.nodes[n]
        in_vec == in_id(m.self, 1)
        g == generate_socket_id_str(m.self, node.outputs[1], TRUE)
        out_vec == g[2]
        self1 == add_local(g[1], "// Mapping type: " \o node.p.vector_type)
        \* bpy.app.version < (2, 81, 0)
        bool_str(b) == IF b THEN "1.0" ELSE "0.0"
        old == add_function_call(
                  self1, find_node_function(node),
                  <<in_vec, blender_value_to_string(node.p.transform_mat),
                    blender_value_to_string(node.p.min),
                    blender_value_to_string(node.p.max),
                    bool_str(node.p.use_min), bool_str(node.p.use_max)>>,
                  <<out_vec>>)
        loc == location_to_mat(self1, in_id(m.self, 2))
        rot == rotation_to_mat(loc[1], in_id(m.self, 3))
        sca == scale_to_mat(rot[1], in_id(m.self, 4))
        x == generate_variable_id_str(sca[1], "xform_mat")
        xform_mat == x[2]
        product ==
            CASE node.p.vector_type = "TEXTURE" ->
                    "inverse(" \o loc[2] \o " * " \o rot[2] \o " * " \o sca[2] \o ")"
              [] node.p.vector_type = "POINT" ->
                    loc[2] \o " * " \o rot[2] \o " * " \o sca[2]
              [] node.p.vector_type = "NORMAL" ->
                    "transpose(inverse(" \o rot[2] \o " * " \o sca[2] \o "))"
              [] OTHER -> rot[2] \o " * " \o sca[2]
        new == add_local(
                  add_local(x[1], "mat4 " \o xform_mat \o " = " \o product),
                  out_vec \o " = (" \o xform_mat \o " * vec4(" \o in_vec
                    \o ", 1.0)).xyz;")
        self2 == [(IF node.p.old THEN old ELSE new)
                    EXCEPT !.out_sockets_map = Bind(@, 1, IdVal(out_vec))]
    IN  [m EXCEPT !.self =
            IF node.p.vector_type = "NORMAL"
            THEN add_local(add_local(self2, "// Normalization for NORMAL mapping"),
                           out_vec \o " = normalize(" \o out_vec \o ")")
            ELSE self2]

TangentNodeConverter_parse(m, n) ==
    LET node == graph.nodes[n]
        g == generate_socket_id_str(m.self, node.outputs[1], TRUE)
        tangent_id == g[2]
    IN  [m EXCEPT
            !.log = IF node.p.direction_type # "UV_MAP"
                    THEN Append(@, "tangent space Radial not supported at "
                                    \o node.name)
                    ELSE @,
            !.self = add_local(
                [g[1] EXCEPT !.flags.uv_or_tangent_used = TRUE,
                             !.out_sockets_map = Bind(@, 1, IdVal(tangent_id))],
                tangent_id \o " = TANGENT")]

UvmapNodeConverter_parse(m, n) ==
    LET node == graph.nodes[n]
        o == SocketIndex(node.outputs, "UV")
        g == generate_socket_id_str(m.self, node.outputs[o], TRUE)
        uv_id == g[2]
    IN  [m EXCEPT
            !.log = Append(@, "'" \o node.bl_idname \o "' use the active UV map, "
                              \o "make sure the correct one is selected, at '"
                              \o node.name),
            !.self = add_local(
                [g[1] EXCEPT !.flags.uv_or_tangent_used = TRUE,
                             !.out_sockets_map = Bind(@, o, IdVal(uv_id))],
                uv_id \o " = vec3(UV, 0.0)")]

\* GeometryNodeConverter._convert
Geometry_convert(self, node, bl_name, gd_name, is_direction) ==
    LET o == SocketIndex(node.outputs, bl_name)
        g == generate_socket_id_str(self, node.outputs[o], TRUE)
        socket_id == g[2]
    IN  yup_to_zup(
            view_to_world(
                add_local([g[1] EXCEPT !.out_sockets_map = Bind(@, o, IdVal(socket_id))],
                          socket_id \o " = " \o gd_name),
                socket_id, is_direction),
            socket_id)

GeometryNodeConverter_parse(m, n) ==
    LET node == graph.nodes[n]
    IN  [m EXCEPT !.self =
            Geometry_convert(
                Geometry_convert(
                    Geometry_convert(m.self, node, "Position", "VERTEX", FALSE),
                    node, "Normal", "NORMAL", TRUE),
                node, "Tangent", "TANGENT", TRUE)]

\* HueSaturationNodeConverter and InvertNodeConverter: one call of a named
\* function on the named inputs, bound to the output socket 'Color'
named_call(m, n, function_name, in_names) ==
    LET node == graph.nodes[n]
        in_args == [k \in 1..Len(in_names) |->
                        in_id(m.self, SocketIndex(node.inputs, in_names[k]))]
        function == find_function_by_name(function_name)
        out_color_socket == SocketIndex(node.outputs, "Color")
        g == generate_socket_id_str(m.self, node.outputs[out_color_socket], TRUE)
        out_color_id == g[2]
    IN  [m EXCEPT !.self =
            [add_function_call(g[1], function, in_args, <<out_color_id>>)
                EXCEPT !.out_sockets_map =
                    Bind(@, out_color_socket, IdVal(out_color_id))]]

HueSaturationNodeConverter_parse(m, n) ==
    named_call(m, n, "node_hsv", <<"Fac", "Hue", "Saturation", "Value", "Color">>)

InvertNodeConverter_parse(m, n) ==
    named_call(m, n, "node_invert", <<"Fac", "Color">>)

(***************************************************************************)
(* converter_factory and the dispatch of parse_node_to_fragment            *)
(***************************************************************************)
NODE_CONVERTERS ==
    [ShaderNodeMapping |-> "MappingNodeConverter",
     ShaderNodeTexImage |-> "ImageTextureNodeConverter",
     ShaderNodeTexCoord |-> "TexCoordNodeConverter",
     ShaderNodeRGB |-> "RgbNodeConverter",
     ShaderNodeMixRGB |-> "MixRgbNodeConverter",
     ShaderNodeNormalMap |-> "NormalMapNodeConverter",
     ShaderNodeBump |-> "BumpNodeConverter",
     NodeReroute |-> "RerouteNodeConverter",
     ShaderNodeMixShader |-> "MixShaderConverter",
     ShaderNodeAddShader |-> "AddShaderConverter",
     ShaderNodeTangent |-> "TangentNodeConverter",
     ShaderNodeUVMap |-> "UvmapNodeConverter",
     ShaderNodeValue |-> "ValueNodeConverter",
     ShaderNodeNewGeometry |-> "GeometryNodeConverter",
     ShaderNodeHueSaturation |-> "HueSaturationNodeConverter",
     ShaderNodeInvert |-> "InvertNodeConverter"]

\* converter_class asking the function registry before looking at the
\* node's first output
converter_class_registry_first(node) ==
    IF node.bl_idname \in DOMAIN NODE_CONVERTERS
    THEN NODE_CONVERTERS[node.bl_idname]
    ELSE IF node_has_function(node) THEN "GeneralNodeConverter"
    ELSE IF /\ Len(node.outputs) > 0
            /\ node.outputs[1].identifier \in {"Emission", "BSDF", "BSSRDF"}
    THEN "BsdfNodeConverter"
    ELSE "InvalidNodeConverter"

converter_class(node) ==
    IF node.bl_idname \in DOMAIN NODE_CONVERTERS
    THEN NODE_CONVERTERS[node.bl_idname]
    ELSE IF /\ Len(node.outputs) > 0
            /\ node.outputs[1].identifier \in {"Emission", "BSDF", "BSSRDF"}
    THEN "BsdfNodeConverter"
    ELSE IF node_has_function(node) THEN "GeneralNodeConverter"
    ELSE "InvalidNodeConverter"

converter_factory(idx, node, n) ==
    NodeConverterBase(converter_class(node), idx, n)

parse_node_to_fragment(m, n, name_hash) ==
    CASE m.self.cls = "InvalidNodeConverter" -> InvalidNodeConverter_parse(m, n)
      [] m.self.cls = "AddShaderConverter" -> AddShaderConverter_parse(m, n)
      [] m.self.cls = "MixShaderConverter" -> MixShaderConverter_parse(m, n)
      [] m.self.cls = "BsdfNodeConverter" -> BsdfNodeConverter_parse(m, n)
      [] m.self.cls = "RerouteNodeConverter" -> RerouteNodeConverter_parse(m, n)
      [] m.self.cls = "BumpNodeConverter" -> BumpNodeConverter_parse(m, n)
      [] m.self.cls = "NormalMapNodeConverter" -> NormalMapNodeConverter_parse(m, n)
      [] m.self.cls = "TexCoordNodeConverter" -> TexCoordNodeConverter_parse(m, n)
      [] m.self.cls = "RgbNodeConverter" -> RgbNodeConverter_parse(m, n)
      [] m.self.cls = "MixRgbNodeConverter" -> MixRgbNodeConverter_parse(m, n)
      [] m.self.cls = "ValueNodeConverter" -> ValueNodeConverter_parse(m, n)
      [] m.self.cls = "ImageTextureNodeConverter" ->
            ImageTextureNodeConverter_parse(m, n, name_hash)
      [] m.self.cls = "MappingNodeConverter" -> MappingNodeConverter_parse(m, n)
      [] m.self.cls = "TangentNodeConverter" -> TangentNodeConverter_parse(m, n)
      [] m.self.cls = "UvmapNodeConverter" -> UvmapNodeConverter_parse(m, n)
      [] m.self.cls = "GeometryNodeConverter" -> GeometryNodeConverter_parse(m, n)
      [] m.self.cls = "HueSaturationNodeConverter" ->
            HueSaturationNodeConverter_parse(m, n)
      [] m.self.cls = "InvertNodeConverter" -> InvertNodeConverter_parse(m, n)
      [] OTHER -> GeneralNodeConverter_parse(m, n)

(***************************************************************************)
(* The caller's protocol: for each node in dependency order, construct its *)
(* converter, initialize its inputs, generate its body, finalize its       *)
(* outputs.  A failure (assertion, missing key) aborts the conversion.     *)
(***************************************************************************)
NumNodes == Len(graph.nodes)

\* values Python's hash() may give for a node name
NameHashes == {-7, 7}

Construct ==
    /\ pc = "factory"
    /\ converters' = (cur :> converter_factory(cur, graph.nodes[cur], cur)) @@ converters
    /\ pc' = "initialize_inputs"
    /\ UNCHANGED <<graph, heap, log, cur, error>>

\* the effect of a handler that ended in machine state m
Finish(m, next_pc, next_cur) ==
    /\ converters' = [converters EXCEPT ![cur] = m.self]
    /\ heap' = m.heap
    /\ log' = m.log
    /\ error' = m.err
    /\ pc' = IF m.err # None THEN "failed" ELSE next_pc
    /\ cur' = IF m.err # None THEN cur ELSE next_cur
    /\ UNCHANGED graph

InitializeInputs ==
    /\ pc = "initialize_inputs"
    /\ Finish(initialize_inputs(Machine(converters[cur], heap, log), cur),
              "parse_node_to_fragment", cur)

ParseNodeToFragment ==
    /\ pc = "parse_node_to_fragment"
    /\ \E name_hash \in NameHashes :
          Finish(parse_node_to_fragment(Machine(converters[cur], heap, log),
                                        cur, name_hash),
                 "initialize_outputs", cur)

InitializeOutputs ==
    /\ pc = "initialize_outputs"
    /\ Finish(initialize_outputs(Machine(converters[cur], heap, log), cur),
              IF cur = NumNodes THEN "done" ELSE "factory",
              IF cur = NumNodes THEN cur ELSE cur + 1)

Next == Construct \/ InitializeInputs \/ ParseNodeToFragment \/ InitializeOutputs

(***************************************************************************)
(* Input graphs.                                                           *)
(***************************************************************************)
Named(node, n) == [node EXCEPT !.name = @ \o ".00" \o ToString(n)]

Graph(nodes, links) ==
    [nodes |-> [n \in 1..Len(nodes) |-> Named(nodes[n], n)], links |-> links]

BsdfNodes ==
    {DiffuseNode, PrincipledNode("0.0"), TransparentNode, GlassNode, EmissionNode}

SupportedNodes ==
    {TexCoordNode, ImageTextureNode, RgbNode, ValueNode, MixRgbNode("MIX", FALSE),
     MixRgbNode("BURN", TRUE), BumpNode(TRUE), BumpNode(FALSE), MixShaderNode,
     AddShaderNode, TangentNode("UV_MAP"), TangentNode("RADIAL"), UvmapNode,
     GeometryNode, HueSaturationNode, InvertNode, PrincipledNode("0.5"),
     MappingNode("POINT", FALSE), MappingNode("NORMAL", FALSE),
     MappingNode("TEXTURE", TRUE), MappingNode("VECTOR", TRUE),
     MathNode, SeparateRgbNode}
    \cup BsdfNodes
    \cup {NormalMapNode(space) : space \in {"TANGENT", "WORLD", "OBJECT"}}
    \cup {RerouteNode(type) : type \in SocketTypes}

UnsupportedNodes ==
    {NoiseTextureNode, VolumeAbsorptionNode, HairBsdfNode, GroupNode}

AllNodes == SupportedNodes \cup UnsupportedNodes

\* every link that may lead from node fn to node tn
PossibleLinks(nodes, fn, tn) ==
    {Link(fn, fs, tn, ts) : fs \in 1..Len(nodes[fn].outputs),
                            ts \in 1..Len(nodes[tn].inputs)}

\* an input socket takes one link
WellLinked(links) ==
    \A k, l \in links : (k.tn = l.tn /\ k.ts = l.ts) => k = l

RECURSIVE UpTo(_, _)
\* the subsets of candidates with at most k elements
UpTo(candidates, k) ==
    IF k = 0 THEN {{}}
    ELSE LET smaller == UpTo(candidates, k - 1)
         IN  smaller \cup {s \cup {l} : s \in smaller, l \in candidates}

LinkSets(candidates) ==
    {links \in UpTo(candidates, MaxLinks) : WellLinked(links)}

StartOn(g) ==
    /\ graph = g
    /\ converters = <<>>
    /\ heap = <<>>
    /\ log = <<>>
    /\ cur = 1
    /\ pc = "factory"
    /\ error = None

Init ==
    \E p \in AllNodes, c \in AllNodes :
        \E links \in LinkSets(PossibleLinks(<<p, c>>, 1, 2)) :
            StartOn(Graph(<<p, c>>, links))

Spec == Init /\ [][Next]_vars

(***************************************************************************)
(* Other families of input graphs.                                         *)
(***************************************************************************)
\* two shader producers feeding a mix or add shader node
ShaderProducers == BsdfNodes \cup {VolumeAbsorptionNode}

MixerLinks(mixer) ==
    LET a == Len(mixer.inputs) - 1
        b == Len(mixer.inputs)
    IN  {links \in SUBSET {Link(1, 1, 3, a), Link(2, 1, 3, b),
                           Link(1, 1, 3, b), Link(2, 1, 3, a)} : WellLinked(links)}

InitMix ==
    \E a \in ShaderProducers, b \in ShaderProducers,
       mixer \in {MixShaderNode, AddShaderNode} :
        \E links \in MixerLinks(mixer) : StartOn(Graph(<<a, b, mixer>>, links))

SpecMix == InitMix /\ [][Next]_vars

\* an image texture, a chain of up to MaxHops intervening nodes, a sink, and
\* possibly a second sink fed by the Color output directly
HopNodes == {RerouteNode("RGBA"), MixRgbNode("MIX", FALSE)}

SinkNodes == {PrincipledNode("0.0"), DiffuseNode, NormalMapNode("TANGENT"), GlassNode}

RECURSIVE SeqsUpTo(_, _)
SeqsUpTo(S, k) ==
    IF k = 0 THEN {<<>>}
    ELSE LET shorter == SeqsUpTo(S, k - 1)
         IN  shorter \cup {Append(q, x) : q \in shorter, x \in S}

\* the links of the chain 1 -> 2 -> ... -> last, leaving output `first` of
\* node 1 and entering input `s` of the last node; hops are entered at their
\* last input
ChainLinks(nodes, first, s) ==
    {Link(k, IF k = 1 THEN first ELSE 1, k + 1,
          IF k + 1 = Len(nodes) THEN s ELSE Len(nodes[k + 1].inputs)) :
        k \in 1..(Len(nodes) - 1)}

InitTex ==
    \E hops \in SeqsUpTo(HopNodes, MaxHops), sink \in SinkNodes, first \in 1..2 :
        \E s \in 1..2 :
            LET chain == <<ImageTextureNode>> \o hops \o <<sink>>
            IN  \/ StartOn(Graph(chain, ChainLinks(chain, first, s)))
                \/ \E sink2 \in SinkNodes, s2 \in 1..2 :
                      StartOn(Graph(chain \o <<sink2>>,
                                    ChainLinks(chain, first, s)
                                        \cup {Link(1, 1, Len(chain) + 1, s2)}))

SpecTex == InitTex /\ [][Next]_vars

\* a texture coordinate node with any combination of its outputs linked,
\* the k-th linked output to the k-th input of the consumer
RECURSIVE Pairing(_, _)
Pairing(outs, k) ==
    IF outs = {} THEN {}
    ELSE LET o == CHOOSE x \in outs : \A y \in outs : x <= y
         IN  {Link(1, o, 2, k)} \cup Pairing(outs \ {o}, k + 1)

InitTexCoord ==
    \E consumer \in {PrincipledNode("0.0"), BumpNode(FALSE), HueSaturationNode} :
        \E outs \in SUBSET (1..Len(TexCoordNode.outputs)) :
            /\ Cardinality(outs) <= Len(consumer.inputs)
            /\ StartOn(Graph(<<TexCoordNode, consumer>>, Pairing(outs, 1)))

SpecTexCoord == InitTexCoord /\ [][Next]_vars

\* the nodes whose code uses a space conversion or a placeholder
SpaceNodes ==
    {NormalMapNode(space) : space \in {"TANGENT", "WORLD", "OBJECT"}}
    \cup {BumpNode(TRUE), GeometryNode, PrincipledNode("0.0")}

\* a texture coordinate node, any of its outputs linked, followed by a node
\* of SpaceNodes
InitSpace ==
    \E consumer \in SpaceNodes :
        \E outs \in SUBSET (1..Len(TexCoordNode.outputs)) :
            /\ Cardinality(outs) <= Len(consumer.inputs)
            /\ StartOn(Graph(<<TexCoordNode, consumer>>, Pairing(outs, 1)))

SpecSpace == InitSpace /\ [][Next]_vars

\* the link into input ts of node tn from source src: 0 none, 1 the Color
\* and 2 the Alpha output of node 1, 3 the output of node 2, 4 the output
\* of node 3
SourceLink(src, tn, ts) ==
    CASE src = 0 -> {}
      [] src \in {1, 2} -> {Link(1, src, tn, ts)}
      [] OTHER -> {Link(src - 1, 1, tn, ts)}

\* an image texture, a colour mix, a reroute and a sink, every input socket
\* fed by any of the nodes before it or by none: the acyclic link graphs
\* over these nodes, processed in dependency order
InitTrace ==
    \E sink \in {DiffuseNode, NormalMapNode("TANGENT"), GlassNode} :
        \E a \in 0..2, b \in 0..2, r \in 0..3, s1 \in 0..4, s2 \in 0..4 :
            StartOn(Graph(<<ImageTextureNode, MixRgbNode("MIX", FALSE),
                            RerouteNode("RGBA"), sink>>,
                          SourceLink(a, 2, 2) \cup SourceLink(b, 2, 3)
                            \cup SourceLink(r, 3, 1)
                            \cup SourceLink(s1, 4, 1) \cup SourceLink(s2, 4, 2)))

SpecTrace == InitTrace /\ [][Next]_vars

(***************************************************************************)
(* Reading the program text.                                               *)
(***************************************************************************)
TypeNames == {"float", "vec3", "vec4", "mat4"}

\* a declaration is a line '<type> <identifier>[ = <expr>]'
IsDeclaration(line) == WordFrom(line, 1) \in TypeNames

DeclaredId(line) == WordFrom(line, Len(WordFrom(line, 1)) + 2)

DeclaredIds(lines) ==
    LET decls == SelectSeq(lines, IsDeclaration)
    IN  [k \in 1..Len(decls) |-> DeclaredId(decls[k])]

\* the identifiers one converter declares, in program order
ConverterDeclarations(c) ==
    DeclaredIds(c.input_definitions) \o DeclaredIds(c.output_definitions)
        \o DeclaredIds(c.local_code)

AllDeclarations ==
    SeqConcat([n \in 1..Len(converters) |-> ConverterDeclarations(converters[n])], 1)

NoDuplicates(seq) == \A i, j \in 1..Len(seq) : seq[i] = seq[j] => i = j

(***************************************************************************)
(* C1: across the input declarations, output declarations and local        *)
(* declarations of all converters of a graph, no identifier is declared    *)
(* more than once.                                                         *)
(***************************************************************************)
C1_IdentifiersUnique == NoDuplicates(AllDeclarations)

(***************************************************************************)
(* Where a converter is in its processing.                                 *)
(***************************************************************************)
InputsInitialized(n) ==
    /\ n \in DOMAIN converters
    /\ \/ n < cur
       \/ n = cur /\ pc \in {"parse_node_to_fragment", "initialize_outputs", "done"}

Processed(n) == n \in DOMAIN converters /\ (n < cur \/ pc = "done")

Range(seq) == {seq[k] : k \in 1..Len(seq)}

ValueInputs(n) ==
    {i \in 1..Len(graph.nodes[n].inputs) : graph.nodes[n].inputs[i].type # "SHADER"}

(***************************************************************************)
(* C2: generate_socket_assignment is total on the nine pairs of types over *)
(* {VALUE, VECTOR, RGBA}: for equal types the declaration of a linked      *)
(* input is the direct assignment, for each of the six other pairs it is   *)
(* the formula of the coercion table, and the assertion 'Cannot link       *)
(* sockets' is reached only when a type outside that set is involved.      *)
(***************************************************************************)
CoercibleTypes == {"VALUE", "VECTOR", "RGBA"}

GlslType == [VALUE |-> "float", VECTOR |-> "vec3", RGBA |-> "vec4"]

\* the coercion table: the expression assigned to a target of type `to`
\* from the identifier x of type `from`
CoercionTable(to, from, x) ==
    CASE <<to, from>> = <<"VALUE", "VALUE">> -> x
      [] <<to, from>> = <<"VECTOR", "VECTOR">> -> x
      [] <<to, from>> = <<"RGBA", "RGBA">> -> x
      [] <<to, from>> = <<"VALUE", "VECTOR">> ->
            "dot(" \o x \o ", vec3(0.333333, 0.333333, 0.333333))"
      [] <<to, from>> = <<"VALUE", "RGBA">> ->
            "dot(" \o x \o ".rgb, vec3(0.2126, 0.7152, 0.0722))"
      [] <<to, from>> = <<"VECTOR", "VALUE">> ->
            "vec3(" \o x \o ", " \o x \o ", " \o x \o ")"
      [] <<to, from>> = <<"RGBA", "VALUE">> ->
            "vec4(" \o x \o ", " \o x \o ", " \o x \o ", " \o x \o ")"
      [] <<to, from>> = <<"RGBA", "VECTOR">> -> "vec4(" \o x \o ", 1.0)"
      [] <<to, from>> = <<"VECTOR", "RGBA">> -> x \o ".rgb"

\* input i of node n takes the identifier a valid upstream converter bound
TakesUpstreamId(n, i) ==
    /\ i \in ValueInputs(n)
    /\ in_is_linked(n, i)
    /\ LET l == in_link(n, i)
       IN  /\ is_valid(converters[l.fn])
           /\ l.fs \in DOMAIN converters[l.fn].out_sockets_map
           /\ converters[l.fn].out_sockets_map[l.fs].k = "str"

FromType(n, i) == graph.nodes[in_link(n, i).fn].outputs[in_link(n, i).fs].type

\* the declaration the coercion table prescribes for linked input i of node n
CoercedDeclaration(n, i) ==
    LET l == in_link(n, i)
        to == graph.nodes[n].inputs[i].type
    IN  GlslType[to] \o " " \o converters[n].in_sockets_map[i].id \o " = "
            \o CoercionTable(to, FromType(n, i),
                             converters[l.fn].out_sockets_map[l.fs].id)

C2_CoercionTable ==
    /\ \A n \in DOMAIN converters :
          InputsInitialized(n) =>
            \A i \in ValueInputs(n) :
                TakesUpstreamId(n, i) /\ FromType(n, i) \in CoercibleTypes
                    => CoercedDeclaration(n, i) \in Range(converters[n].input_definitions)
    /\ error = "AssertionError: Cannot link sockets" =>
          \E i \in ValueInputs(cur) :
              in_is_linked(cur, i) /\ FromType(cur, i) \notin CoercibleTypes

\* a scalar output feeds a color input, and the whole graph was processed
C2_Witness ==
    /\ pc = "done"
    /\ \E n \in DOMAIN converters : \E i \in ValueInputs(n) :
          /\ TakesUpstreamId(n, i)
          /\ graph.nodes[n].inputs[i].type = "RGBA"
          /\ FromType(n, i) = "VALUE"
          /\ CoercedDeclaration(n, i) \in Range(converters[n].input_definitions)

(***************************************************************************)
(* C3: shading flags are monotonic: no step of any converter lowers a flag *)
(* that is raised, so a flag raised by one node stays set in the           *)
(* OR-combination over all converters of the graph.                        *)
(***************************************************************************)
FlagNames == DOMAIN ShadingFlags

\* the OR-combination over all converters
AggregateFlag(cs, f) == \E n \in DOMAIN cs : cs[n].flags[f]

C3_FlagsMonotonic ==
    [][\A f \in FlagNames :
          /\ \A n \in DOMAIN converters :
                converters[n].flags[f] =>
                    n \in DOMAIN converters' /\ converters'[n].flags[f]
          /\ AggregateFlag(converters, f) => AggregateFlag(converters', f)]_vars

\* the first node raised transparent, and an unconnected second node was
\* processed after it
C3_Witness ==
    /\ pc = "done"
    /\ Len(converters) = 2
    /\ graph.links = {}
    /\ converters[1].flags.transparent
    /\ ~converters[2].flags.transparent
    /\ AggregateFlag(converters, "transparent")

(***************************************************************************)
(* C4: when a non-shader input of a consumer is linked to a node whose     *)
(* converter is the invalid stub, initialize_inputs does not fail; it      *)
(* declares the input with the default an unlinked socket gets (the        *)
(* built-in NORMAL or TANGENT for a socket named Normal or Tangent, the    *)
(* socket's literal default_value otherwise), never with an upstream       *)
(* binding, and logs exactly one warning for that socket, which names the  *)
(* unsupported node.                                                       *)
(***************************************************************************)
InvalidFed(n, i) ==
    /\ i \in ValueInputs(n)
    /\ in_is_linked(n, i)
    /\ in_link(n, i).fn \in DOMAIN converters
    /\ ~is_valid(converters[in_link(n, i).fn])

InvalidFedInputs(n) == {i \in ValueInputs(n) : InvalidFed(n, i)}

OnlyInvalidUpstream(n) ==
    \A l \in graph.links :
        l.tn = n => l.fn \in DOMAIN converters /\ ~is_valid(converters[l.fn])

LiteralDefault(socket) == blender_value_to_string(socket.default_value)

UnlinkedDefault(socket) ==
    CASE socket.name = "Normal" -> "NORMAL"
      [] socket.name = "Tangent" -> "TANGENT"
      [] OTHER -> LiteralDefault(socket)

WarningNaming(n, i) ==
    "input node '" \o graph.nodes[in_link(n, i).fn].name
        \o "' not supported,use default value for socket '"
        \o graph.nodes[n].inputs[i].name \o "'"

\* text s holds text sub
Contains(s, sub) ==
    \E k \in 1..(Len(s) - Len(sub) + 1) : SubSeq(s, k, k + Len(sub) - 1) = sub

\* what the step of initialize_inputs on node cur did for its inputs fed by
\* invalid converters, Default(socket) being the expected initial value
FallsBackTo(Default(_)) ==
    pc = "initialize_inputs" /\ InvalidFedInputs(cur) # {} /\ OnlyInvalidUpstream(cur)
        => /\ error' = None
           /\ pc' = "parse_node_to_fragment"
           /\ Len(log') = Len(log) + Cardinality(InvalidFedInputs(cur))
           /\ \A i \in InvalidFedInputs(cur) :
                LET socket == graph.nodes[cur].inputs[i]
                    id == converters'[cur].in_sockets_map[i].id
                IN  /\ (GlslType[socket.type] \o " " \o id \o " = " \o Default(socket))
                          \in Range(converters'[cur].input_definitions)
                    /\ \A line \in Range(converters'[cur].input_definitions) :
                          ~Contains(line, converters[in_link(cur, i).fn].id_prefix)
                    /\ WarningNaming(cur, i) \in Range(log') \ Range(log)

C4_InvalidUpstreamDefault == [][FallsBackTo(UnlinkedDefault)]_vars

\* C4 as stated: the declaration always carries the literal default_value
C4_LiteralDefault == [][FallsBackTo(LiteralDefault)]_vars

\* a Normal input fed by an unsupported node was declared as NORMAL, with
\* one warning
C4_Witness ==
    /\ pc = "parse_node_to_fragment"
    /\ Len(log) = 1
    /\ \E i \in InvalidFedInputs(cur) :
          /\ graph.nodes[cur].inputs[i].name = "Normal"
          /\ log[1] = WarningNaming(cur, i)
          /\ (GlslType[graph.nodes[cur].inputs[i].type] \o " "
                \o converters[cur].in_sockets_map[i].id \o " = NORMAL")
                \in Range(converters[cur].input_definitions)

(***************************************************************************)
(* C5: after a reroute node is processed, the binding of its output socket *)
(* is the very binding of its input socket, and the node has no local code *)
(* and no output declaration; the only statements it contributes are the   *)
(* declarations initialize_inputs emits for its input socket.              *)
(***************************************************************************)
IsReroute(n) == converters[n].cls = "RerouteNodeConverter"

SameBinding(n) ==
    /\ 1 \in DOMAIN converters[n].out_sockets_map
    /\ converters[n].out_sockets_map[1] = converters[n].in_sockets_map[1]

\* the lines of a section after its heading
Statements(lines) == Tail(lines)

C5_RerouteTransparent ==
    \A n \in DOMAIN converters :
        Processed(n) /\ IsReroute(n) =>
            /\ SameBinding(n)
            /\ Statements(converters[n].local_code) = <<>>
            /\ Statements(converters[n].output_definitions) = <<>>
            /\ Statements(converters[n].input_definitions) # <<>>
            /\ \A line \in Range(Statements(converters[n].input_definitions)) :
                  /\ IsDeclaration(line)
                  /\ \/ DeclaredId(line) \in converters[n].defined_ids
                     \/ graph.nodes[n].inputs[1].type = "SHADER"

\* C5 as stated: no statement in the input declarations either
C5_NoStatementAtAll ==
    \A n \in DOMAIN converters :
        Processed(n) /\ IsReroute(n) =>
            /\ SameBinding(n)
            /\ Statements(converters[n].local_code) = <<>>
            /\ Statements(converters[n].output_definitions) = <<>>
            /\ Statements(converters[n].input_definitions) = <<>>

\* a linked reroute was processed: it declared its input and passed it on
C5_Witness ==
    /\ pc = "done"
    /\ IsReroute(2)
    /\ in_is_linked(2, 1)
    /\ out_is_linked(1, in_link(2, 1).fs)
    /\ SameBinding(2)
    /\ Len(Statements(converters[2].input_definitions)) = 1

(***************************************************************************)
(* C6: when mix_frag_shader_link mixes link A without alpha and link B     *)
(* with alpha X by factor f, it emits '<id> = mix(1.0, X, f)' with id a    *)
(* fresh identifier, binds the output alpha to id, and does not emit       *)
(* mix(X, 1.0, f).                                                         *)
(***************************************************************************)
IsMixer(n) == converters[n].cls \in {"MixShaderConverter", "AddShaderConverter"}

\* node n was parsed and nothing has touched its links since
JustParsed(n) == n = cur /\ n \in DOMAIN converters /\ pc \in {"initialize_outputs", "done"}

\* the shader links a mixer reads and writes, and its factor
MixerA(n) == heap[converters[n].in_sockets_map[Len(graph.nodes[n].inputs) - 1].ref]
MixerB(n) == heap[converters[n].in_sockets_map[Len(graph.nodes[n].inputs)].ref]
MixerOut(n) == heap[converters[n].out_sockets_map[1].ref]

MixerFac(n) ==
    IF converters[n].cls = "AddShaderConverter" THEN "0.5"
    ELSE converters[n].in_sockets_map[1].id

LinkIds(link) == {link[p] : p \in DOMAIN link} \ {None}

AlphaOnlyInB(n) == MixerA(n).alpha = None /\ MixerB(n).alpha # None

C6_MixDefaultAlpha ==
    \A n \in DOMAIN converters :
        JustParsed(n) /\ IsMixer(n) /\ AlphaOnlyInB(n) =>
            LET id == MixerOut(n).alpha
                X == MixerB(n).alpha
                f == MixerFac(n)
            IN  /\ id # None
                /\ isidentifier(id)
                /\ id \notin LinkIds(MixerA(n)) \cup LinkIds(MixerB(n))
                            \cup Range(DeclaredIds(converters[n].input_definitions))
                /\ \A p \in PropertyNames \ {"alpha"} : MixerOut(n)[p] # id
                /\ (id \o " = mix(1.0, " \o X \o ", " \o f \o ")")
                      \in Range(converters[n].local_code)
                /\ \A line \in Range(converters[n].local_code) :
                      ~Contains(line, "mix(" \o X \o ", 1.0, " \o f \o ")")

\* a mix shader node mixed a closure without alpha and one with alpha
C6_Witness ==
    /\ pc = "done"
    /\ converters[cur].cls = "MixShaderConverter"
    /\ in_is_linked(cur, 2) /\ in_is_linked(cur, 3)
    /\ AlphaOnlyInB(cur)
    /\ MixerOut(cur).alpha # None
    /\ \E line \in Range(converters[cur].local_code) : Contains(line, " = mix(1.0, ")

(***************************************************************************)
(* C7: the hint of the texture an image texture node registers is 'normal' *)
(* when its Color output reaches, through any chain of links, the Color    *)
(* input of a normal map node; otherwise 'albedo' when it so reaches the   *)
(* Base Color input of a Principled BSDF or the Color input of a Diffuse   *)
(* BSDF; and 'none' when it reaches neither.  When both are reached the    *)
(* hint is 'normal'.                                                       *)
(***************************************************************************)
\* the input sockets fed by some output of a node that owns a socket of R
FedBy(R) == {<<l.tn, l.ts>> : l \in {k \in graph.links : \E r \in R : k.fn = r[1]}}

RECURSIVE Downstream(_)
Downstream(R) == IF FedBy(R) \subseteq R THEN R ELSE Downstream(R \cup FedBy(R))

\* every input socket the Color output of node n reaches
ColorReaches(n) ==
    Downstream({<<l.tn, l.ts>> :
                    l \in OutLinks(n, SocketIndex(graph.nodes[n].outputs, "Color"))})

ReachesAlbedoInput(n) ==
    \E r \in ColorReaches(n) :
        LET node == graph.nodes[r[1]]
        IN  \/ node.bl_idname = "ShaderNodeBsdfPrincipled"
                /\ node.inputs[r[2]].name = "Base Color"
            \/ node.bl_idname = "ShaderNodeBsdfDiffuse"
                /\ node.inputs[r[2]].name = "Color"

ReachesNormalInput(n) ==
    \E r \in ColorReaches(n) :
        /\ graph.nodes[r[1]].bl_idname = "ShaderNodeNormalMap"
        /\ graph.nodes[r[1]].inputs[r[2]].name = "Color"

IsImageTexture(n) == converters[n].cls = "ImageTextureNodeConverter"

Parsed(n) ==
    /\ n \in DOMAIN converters
    /\ n < cur \/ (n = cur /\ pc \in {"initialize_outputs", "done"})

\* NONE = 0, ALBEDO = 1, NORMAL = 2
HintName(h) == CASE h = 0 -> "none" [] h = 1 -> "albedo" [] h = 2 -> "normal"

RegisteredHint(n) == HintName(converters[n].textures[1].hint)

C7_TextureHint ==
    \A n \in DOMAIN converters :
        Parsed(n) /\ IsImageTexture(n) =>
            /\ Len(converters[n].textures) = 1
            /\ RegisteredHint(n) =
                  IF ReachesNormalInput(n) THEN "normal"
                  ELSE IF ReachesAlbedoInput(n) THEN "albedo"
                  ELSE "none"

\* C7 as stated: 'albedo' whenever a closure's color input is reached
C7_AlbedoWheneverReached ==
    \A n \in DOMAIN converters :
        Parsed(n) /\ IsImageTexture(n) =>
            /\ Len(converters[n].textures) = 1
            /\ RegisteredHint(n) =
                  IF ReachesAlbedoInput(n) THEN "albedo"
                  ELSE IF ReachesNormalInput(n) THEN "normal"
                  ELSE "none"

\* a texture that reaches a closure's color input through intervening nodes
\* and a normal map's Color input directly was registered as 'normal'
C7_Witness ==
    /\ pc = "done"
    /\ IsImageTexture(1)
    /\ Len(graph.nodes) >= 4
    /\ ReachesAlbedoInput(1)
    /\ ReachesNormalInput(1)
    /\ ~is_albedo_texture_direct(1)
    /\ RegisteredHint(1) = "normal"

(***************************************************************************)
(* Output sockets and the text of their declarations.                      *)
(***************************************************************************)
Outputs(n) == 1..Len(graph.nodes[n].outputs)

Registered(n, o) == o \in DOMAIN converters[n].out_sockets_map

\* the identifiers the generators can make for output socket o of node n
GeneratedFor(n, o) ==
    LET c == converters[n]
        socket == graph.nodes[n].outputs[o]
    IN  IF socket.type # "SHADER"
        THEN {c.id_prefix \o "out" \o ToString(k) \o "_"
                \o filter_id_illegal_char(socket.name) : k \in 0..c.output_var_count}
        ELSE {c.id_prefix
                \o filter_id_illegal_char(socket.name \o "_out" \o ToString(k)
                                            \o "_" \o p) :
                k \in 0..c.output_var_count, p \in PropertyNames}

OutputDeclarations(n) == Range(DeclaredIds(converters[n].output_definitions))

\* the identifiers ids hold one made for socket o of node n
DeclaredAmong(ids, n, o) == ids # {} /\ ids \cap GeneratedFor(n, o) # {}

\* output_definitions of node n declares an identifier made for socket o
Declared(n, o) == DeclaredAmong(OutputDeclarations(n), n, o)

\* the identifiers reachable from the registered output bindings of node n
RegisteredIds(n) ==
    UNION {IF converters[n].out_sockets_map[o].k = "str"
           THEN {converters[n].out_sockets_map[o].id}
           ELSE LinkIds(heap[converters[n].out_sockets_map[o].ref]) :
                o \in DOMAIN converters[n].out_sockets_map}

\* initialize_outputs of node n has just run
JustFinished(n) ==
    /\ n \in DOMAIN converters
    /\ (pc = "factory" /\ n = cur - 1) \/ (pc = "done" /\ n = cur)

(***************************************************************************)
(* C8: an output socket that has no downstream consumer and was never      *)
(* registered in out_sockets_map produces no declaration: after            *)
(* initialize_outputs, output_definitions declares only identifiers        *)
(* reachable from a registered output socket binding.                      *)
(***************************************************************************)
C8_OnlyRegisteredDeclared ==
    /\ \A n \in DOMAIN converters :
          JustFinished(n) =>
            /\ \A line \in Range(Statements(converters[n].output_definitions)) :
                  IsDeclaration(line)
            /\ OutputDeclarations(n) \subseteq RegisteredIds(n)
    /\ \A n \in DOMAIN converters :
          JustFinished(n) =>
            LET ids == OutputDeclarations(n)
            IN  \A o \in Outputs(n) :
                    ~out_is_linked(n, o) /\ ~Registered(n, o)
                        => ~DeclaredAmong(ids, n, o)

\* a node declared some outputs but not its unregistered, unlinked one
C8_Witness ==
    /\ pc = "done"
    /\ \E n \in DOMAIN converters : \E o \in Outputs(n), r \in Outputs(n) :
          /\ ~out_is_linked(n, o) /\ ~Registered(n, o) /\ ~Declared(n, o)
          /\ Registered(n, r) /\ Declared(n, r)

C10_TexCoordKeepsGeneratedId ==
    \A n \in DOMAIN converters :
        Parsed(n) /\ converters[n].cls = "TexCoordNodeConverter" =>
            \A o \in Outputs(n) :
                out_is_linked(n, o) =>
                    /\ Registered(n, o)
                    /\ converters[n].out_sockets_map[o].id \in GeneratedFor(n, o)

(***************************************************************************)
(* Shader links of finished producers                                      *)
(***************************************************************************)
\* the Shader Links stored in the out_sockets_map of converter n
OutLinkRefs(n) ==
    {converters[n].out_sockets_map[o].ref :
        o \in {s \in DOMAIN converters[n].out_sockets_map :
                  converters[n].out_sockets_map[s].k = "link"}}

\* C11: once a producer has finished initialize_outputs, a consumer's
\* initialize_inputs leaves the property bindings of every Shader Link in
\* the producer's out_sockets_map as they were.
C11_ProducerLinksReadOnly ==
    [][pc = "initialize_inputs" =>
          \A n \in 1..(cur - 1) : \A r \in OutLinkRefs(n) : heap'[r] = heap[r]]_vars

(***************************************************************************)
(* Texture objects.  Each Texture is created once, by the image texture    *)
(* converter that appends it to its textures list, so the place where it   *)
(* is kept (converter, position) is the identity of the object.            *)
(***************************************************************************)
TextureObjects ==
    UNION {{<<n, k>> : k \in 1..Len(converters[n].textures)} : n \in DOMAIN converters}

TextureAt(a) == converters[a[1]].textures[a[2]]

\* Texture.__hash__: the hash of the tuple (image, hint)
Texture_hash(t) == <<t.image, t.hint>>

\* Texture defines no __eq__: objects a and b compare by object.__eq__,
\* which is identity
Texture_eq(a, b) == a = b

\* the entries a set built from the texture objects keeps: one per class of
\* objects that are equal and have equal hashes
TextureSetSize ==
    Cardinality({{b \in TextureObjects :
                     /\ Texture_eq(a, b)
                     /\ Texture_hash(TextureAt(a)) = Texture_hash(TextureAt(b))} :
                 a \in TextureObjects})

\* C12: two texture bindings with the same image and the same hint are equal
\* and have equal hashes, whatever their identifiers, so a set of texture
\* bindings keeps one entry per (image, hint) pair.
C12_TextureEqualByImageAndHint ==
    /\ \A a, b \in TextureObjects :
          (/\ TextureAt(a).image = TextureAt(b).image
           /\ TextureAt(a).hint = TextureAt(b).hint)
          => /\ Texture_eq(a, b)
             /\ Texture_hash(TextureAt(a)) = Texture_hash(TextureAt(b))
    /\ TextureSetSize =
          Cardinality({<<TextureAt(a).image, TextureAt(a).hint>> : a \in TextureObjects})

(***************************************************************************)
(* The rules of converter_factory                                          *)
(***************************************************************************)
HasDedicatedConverter(node) == node.bl_idname \in DOMAIN NODE_CONVERTERS

IsClosureNode(node) ==
    /\ node.outputs # <<>>
    /\ node.outputs[1].identifier \in {"Emission", "BSDF", "BSSRDF"}

IsUnsupportedKind(node) ==
    ~HasDedicatedConverter(node) /\ ~node_has_function(node)

\* C14: a node with no dedicated converter and no registry entry gets the
\* invalid stub, and its body generation completes with the warning comment
\* and without a fatal failure, also when its first output is a closure.
C14_UnsupportedKindRecoverable ==
    \A n \in DOMAIN converters :
        IsUnsupportedKind(graph.nodes[n]) =>
            /\ ~is_valid(converters[n])
            /\ ~(pc = "failed" /\ cur = n)
            /\ JustParsed(n) =>
                  "// Warn: node not supported" \in Range(converters[n].local_code)



(***************************************************************************)
(* The identifier assertion of initialize_outputs                          *)
(***************************************************************************)
\* C15: for every converter that reports is_valid() true, each binding that
\* body generation registers for a non-shader output socket is a valid
\* identifier, and the identifier assertion of initialize_outputs never
\* fails for a supported node.
C15_RegisteredBindingsAreIdentifiers ==
    \A n \in DOMAIN converters :
        is_valid(converters[n]) =>
            /\ \A o \in DOMAIN converters[n].out_sockets_map :
                  (/\ graph.nodes[n].outputs[o].type # "SHADER"
                   /\ converters[n].out_sockets_map[o].k = "str")
                  => isidentifier(converters[n].out_sockets_map[o].id)
            /\ ~(pc = "failed" /\ cur = n /\ error = "AssertionError: isidentifier")



(***************************************************************************)
(* Lookups in a producer's out_sockets_map                                 *)
(***************************************************************************)
\* the links into node n whose lookup in the producer's out_sockets_map the
\* consumer performs: any link of a non-shader input, and a shader output
\* feeding a shader input, in both cases from a valid producer
LookedUpLinks(n) ==
    {l \in graph.links :
        /\ l.tn = n
        /\ l.fn \in DOMAIN converters
        /\ is_valid(converters[l.fn])
        /\ \/ graph.nodes[n].inputs[l.ts].type # "SHADER"
           \/ graph.nodes[l.fn].outputs[l.fs].type = "SHADER"}

\* C16: when every producer has completed body generation and
\* initialize_outputs before its consumer runs initialize_inputs, the lookup
\* of a linked output socket of a valid producer in the producer's
\* out_sockets_map succeeds.
C16_LinkedOutputIsBound ==
    /\ (pc = "initialize_inputs" /\ \A l \in graph.links : l.tn = cur => l.fn < cur)
       => \A l \in LookedUpLinks(cur) : l.fs \in DOMAIN converters[l.fn].out_sockets_map
    /\ ~(pc = "failed" /\ error = "KeyError: out_sockets_map")

(***************************************************************************)
(* mix_frag_shader_link, property by property                              *)
(***************************************************************************)
\* alpha defined by exactly one input is the alpha default case
AlphaDefaultCase(n, p) ==
    p = "alpha" /\ ((MixerA(n).alpha = None) # (MixerB(n).alpha = None))

\* the properties for which a mix(...) statement is due
MixedProperties(n) ==
    {p \in PropertyNames :
        \/ MixerA(n)[p] # None /\ MixerB(n)[p] # None
        \/ AlphaDefaultCase(n, p)}

\* C17: for every property other than the alpha default case: both inputs
\* define it - one statement 'id = mix(a, b, fac)' with a new identifier the
\* output is bound to; exactly one defines it - the output is bound to that
\* input's identifier and no statement is emitted; neither - the output
\* leaves it unbound; and no property outside the fixed set is ever set.
C17_MixPerProperty ==
    \A n \in DOMAIN converters :
        JustParsed(n) /\ IsMixer(n) =>
            /\ DOMAIN MixerOut(n) = PropertyNames
            /\ Len(Statements(converters[n].local_code)) = Cardinality(MixedProperties(n))
            /\ \A p \in PropertyNames :
                  LET a == MixerA(n)[p]
                      b == MixerB(n)[p]
                      out == MixerOut(n)[p]
                  IN  \/ AlphaDefaultCase(n, p)
                      \/ /\ a # None /\ b # None
                         /\ out # None
                         /\ out \notin LinkIds(MixerA(n)) \cup LinkIds(MixerB(n))
                         /\ \A q \in PropertyNames \ {p} : MixerOut(n)[q] # out
                         /\ Cardinality({k \in DOMAIN converters[n].local_code :
                                converters[n].local_code[k] =
                                    out \o " = mix(" \o a \o ", " \o b \o ", "
                                        \o MixerFac(n) \o ")"}) = 1
                      \/ a # None /\ b = None /\ out = a
                      \/ a = None /\ b # None /\ out = b
                      \/ a = None /\ b = None /\ out = None

\* a mixer met a property both inputs define, one only one input defines and
\* one neither defines
C17_Witness ==
    /\ pc = "done"
    /\ IsMixer(cur)
    /\ \E p \in PropertyNames : MixerA(cur)[p] # None /\ MixerB(cur)[p] # None
    /\ \E p \in PropertyNames \ {"alpha"} :
          /\ (MixerA(cur)[p] = None) # (MixerB(cur)[p] = None)
          /\ MixerOut(cur)[p] \in {MixerA(cur)[p], MixerB(cur)[p]} \ {None}
    /\ \E p \in PropertyNames :
          MixerA(cur)[p] = None /\ MixerB(cur)[p] = None /\ MixerOut(cur)[p] = None

(***************************************************************************)
(* Shader inputs fed by an unsupported node                                *)
(***************************************************************************)
ShaderInvalidFed(n) ==
    {i \in 1..Len(graph.nodes[n].inputs) :
        /\ graph.nodes[n].inputs[i].type = "SHADER"
        /\ in_is_linked(n, i)
        /\ in_link(n, i).fn \in DOMAIN converters
        /\ ~is_valid(converters[in_link(n, i).fn])}

\* the default Shader Link: only an albedo, declared as black
DefaultShaderLink(self, h, i) ==
    LET link == h[self.in_sockets_map[i].ref]
    IN  /\ self.in_sockets_map[i].k = "link"
        /\ link.albedo # None
        /\ \A p \in PropertyNames \ {"albedo"} : link[p] = None
        /\ \E id \in Range(DeclaredIds(self.input_definitions)) :
              /\ ("vec3 " \o id \o " = vec3(0.0, 0.0, 0.0)") \in Range(self.input_definitions)
              /\ ("vec3 " \o link.albedo \o " = " \o id) \in Range(self.input_definitions)

\* C18: a shader input linked to a node whose converter is invalid is bound
\* to a default Shader Link exposing only an albedo of vec3(0.0, 0.0, 0.0),
\* as if unlinked, and a warning naming the unsupported node and the socket
\* is logged.
C18_InvalidShaderInputWarned ==
    [][pc = "initialize_inputs" /\ ShaderInvalidFed(cur) # {}
        => /\ error' = None
           /\ \A i \in ShaderInvalidFed(cur) :
                /\ DefaultShaderLink(converters'[cur], heap', i)
                /\ WarningNaming(cur, i) \in Range(log') \ Range(log)]_vars



(***************************************************************************)
(* Normal and Tangent inputs of a closure                                  *)
(***************************************************************************)
ClosureDirections ==
    {[pname |-> "normal", socket |-> "Normal", builtin |-> "NORMAL"],
     [pname |-> "tangent", socket |-> "Tangent", builtin |-> "TANGENT"]}

IsClosureConverter(n) == converters[n].cls = "BsdfNodeConverter"

\* line is a space conversion call on var
ConvertsVar(line, var) == Contains(line, "_convert_") /\ Contains(line, "(" \o var)

\* what holds of a Normal or Tangent input whatever the direction of the
\* conversion: the output property is the input variable, and an unlinked
\* socket has no conversion call and holds the raw built-in
DirectionBound(n, d, i) ==
    LET var == converters[n].in_sockets_map[i].id
    IN  /\ heap[converters[n].out_sockets_map[1].ref][d.pname] = var
        /\ ~in_is_linked(n, i) =>
              /\ \A line \in Range(converters[n].local_code) : ~ConvertsVar(line, var)
              /\ ("vec3 " \o var \o " = " \o d.builtin)
                    \in Range(converters[n].input_definitions)

\* C19 (amended): a linked Normal or Tangent input of a closure is converted
\* from host Z-up world space into the renderer's Y-up view space
\* (zup_to_yup, then world_to_view), and the output property is bound to the
\* input variable; for an unlinked socket no conversion call is emitted and
\* the variable holds the raw built-in.
C19_LinkedDirectionToViewSpace ==
    \A n \in DOMAIN converters :
        JustParsed(n) /\ IsClosureConverter(n) =>
            \A d \in ClosureDirections :
                LET i == SocketIndex(graph.nodes[n].inputs, d.socket)
                    var == converters[n].in_sockets_map[i].id
                    code == converters[n].local_code
                IN  i # 0 =>
                      /\ DirectionBound(n, d, i)
                      /\ in_is_linked(n, i) =>
                            /\ \E k \in 1..(Len(code) - 1) :
                                  /\ code[k] = "space_convert_zup_to_yup(" \o var \o ");"
                                  /\ code[k + 1] = "dir_space_convert_world_to_view("
                                                      \o var \o ", INV_CAMERA_MATRIX);"
                            /\ Cardinality({k \in 1..Len(code) : ConvertsVar(code[k], var)}) = 2

\* C19 as stated: the linked input is converted from view space into Z-up
\* model space
C19_LinkedDirectionToModelSpace ==
    \A n \in DOMAIN converters :
        JustParsed(n) /\ IsClosureConverter(n) =>
            \A d \in ClosureDirections :
                LET i == SocketIndex(graph.nodes[n].inputs, d.socket)
                    var == converters[n].in_sockets_map[i].id
                    code == converters[n].local_code
                IN  i # 0 =>
                      /\ DirectionBound(n, d, i)
                      /\ in_is_linked(n, i) =>
                            /\ \E line \in Range(code) :
                                  Contains(line, "_convert_view_to_") /\ ConvertsVar(line, var)
                            /\ ("space_convert_yup_to_zup(" \o var \o ");") \in Range(code)

\* a closure whose Normal input is linked and whose Tangent input is not
C19_Witness ==
    /\ pc = "done"
    /\ IsClosureConverter(cur)
    /\ SocketIndex(graph.nodes[cur].inputs, "Normal") # 0
    /\ in_is_linked(cur, SocketIndex(graph.nodes[cur].inputs, "Normal"))
    /\ SocketIndex(graph.nodes[cur].inputs, "Tangent") # 0
    /\ ~in_is_linked(cur, SocketIndex(graph.nodes[cur].inputs, "Tangent"))
    /\ \E line \in Range(converters[cur].local_code) :
          Contains(line, "dir_space_convert_world_to_view(")

(***************************************************************************)
(* Placeholders and the flags that announce them                           *)
(***************************************************************************)
EmittedCode(n) ==
    converters[n].input_definitions \o converters[n].local_code
        \o converters[n].output_definitions

References(n, placeholder) ==
    \E line \in Range(EmittedCode(n)) : Contains(line, placeholder)

\* C20: in every state, a converter whose emitted code references
\* INV_VIEW_MAT has inv_view_mat_used raised, one whose code references
\* INV_MODEL_MAT has inv_model_mat_used raised, and one whose code references
\* AABB_UVW has aabb_tex_coord_used raised.
C20_PlaceholderFlagged ==
    \A n \in DOMAIN converters :
        /\ References(n, INV_VIEW_MAT) => converters[n].flags.inv_view_mat_used
        /\ References(n, INV_MODEL_MAT) => converters[n].flags.inv_model_mat_used
        /\ References(n, AABB_UVW) => converters[n].flags.aabb_tex_coord_used

\* a texture coordinate node used all three placeholders and the normal map
\* after it the inverse view matrix
C20_Witness ==
    /\ pc = "done"
    /\ References(1, INV_VIEW_MAT) /\ References(1, INV_MODEL_MAT)
    /\ References(1, AABB_UVW)
    /\ converters[1].flags.inv_model_mat_used /\ converters[1].flags.aabb_tex_coord_used
    /\ converters[2].cls = "NormalMapNodeConverter"
    /\ References(2, INV_VIEW_MAT) /\ converters[2].flags.inv_view_mat_used

(***************************************************************************)
(* The forward link tracing of the texture classification                  *)
(***************************************************************************)
RECURSIVE PathsThrough(_)
\* the number of link paths that begin with one of links, a path being
\* continued by any link leaving the node its last link enters
PathsThrough(links) ==
    IF links = {} THEN 0
    ELSE LET l == CHOOSE x \in links : TRUE
         IN  1 + PathsThrough({k \in graph.links : k.fn = l.tn})
               + PathsThrough(links \ {l})

\* the link paths leaving the Color output of node n
ColorPaths(n) ==
    PathsThrough(OutLinks(n, SocketIndex(graph.nodes[n].outputs, "Color")))

\* C21: on every finite acyclic link graph the tracing loops of
\* is_albedo_texture and is_normal_texture end after at most as many queue
\* steps as there are link paths leaving the Color output; with no visited
\* set, a search that finds nothing takes one step for every such path.
C21_TraceStepsBounded ==
    \A n \in DOMAIN converters :
        JustParsed(n) /\ IsImageTexture(n) =>
            /\ is_albedo_texture_steps(n) <= ColorPaths(n)
            /\ is_normal_texture_steps(n) <= ColorPaths(n)
            /\ ~is_albedo_texture(n) => is_albedo_texture_steps(n) = ColorPaths(n)
            /\ ~is_normal_texture(n) => is_normal_texture_steps(n) = ColorPaths(n)

\* a texture whose Color output reaches a socket along two paths: the search
\* that found nothing took more steps than there are sockets reached
C21_Witness ==
    /\ JustParsed(1) /\ IsImageTexture(1)
    /\ ~is_albedo_texture(1) /\ ~is_normal_texture(1)
    /\ is_normal_texture_steps(1) = ColorPaths(1)
    /\ ColorPaths(1) > Cardinality(ColorReaches(1))
    /\ ColorPaths(1) > Cardinality(graph.links)

====
